---- MODULE Spec2Model ----
(***************************************************************************)
(* Orchestration core of the Xona agent: the three forum pipelines of      *)
(* services/daily-news.js (rotation cursors, the news dedup window), the   *)
(* retry helper of services/upload.js and the Superteam listing scanner of *)
(* agent/superteam.js.  External services (Grok, the image models, the     *)
(* Colosseum forum, the Superteam API, the CDN) are the environment: each  *)
(* awaited call is a suspension point whose outcome is chosen by \E.       *)
(***************************************************************************)
EXTENDS Integers, Sequences, FiniteSets, TLC

(***************************************************************************)
(* Configuration of services/daily-news.js                                 *)
(***************************************************************************)
X_NEWS_ACCOUNTS ==
  <<"solana", "dexteraisol", "zauthx402", "payainetwork", "relayaisolana">>

IMAGE_MODELS == <<"nano-banana", "seedream", "grok-imagine">>

MAX_RECENT == 30

\* news_url of an item that carries no URL (item.news_url || ... || null)
NoUrl == 0

\* forceAccount / forceModel left out (null): the run takes the rotation
NoForce == "none"

(***************************************************************************)
(* Bounds of the model                                                     *)
(***************************************************************************)
\* concurrent invocations of one pipeline that are followed at a time
Runs == {1, 2}

\* unforced X News triggers explored (wraps the 5 accounts)
MaxNewsIndex == 6
\* unforced Image Showcase triggers explored (wraps the 3 models)
MaxModelIndex == 4
\* distinct news URLs the feed produces in the pipeline specifications
FeedUrls == 2
\* identifiers recorded in the pipeline specifications
FeedRecords == 3
\* the dedup specification records this many identifiers beyond MAX_RECENT
ExtraRecords == 3
\* the dedup specification follows overlapping runs while fewer than this
\* many identifiers have been recorded, sequential runs afterwards
OverlapRecords == 2

\* largest maxRetries passed to UploadService.retry
MaxRetriesArg == 5

VARIABLES
  xNewsIndex,       \* let xNewsIndex
  recentNewsUrls,   \* const recentNewsUrls = []
  newsRuns,         \* the invocations of runXNewsPost in flight
  urlsSeen,         \* environment: URLs 1..urlsSeen exist on the feed
  recorded,         \* history: identifiers pushed by trackNewsUrl, in order
  xNewsPicked,      \* history: accounts taken by unforced triggers, in order
  lastPost,         \* history: forum outcome of the run that finished last
  modelIndex,       \* let modelIndex
  showcaseRuns,     \* the invocations of runImageShowcase in flight
  modelPicked,      \* history: models taken by unforced triggers, in order
  retry,            \* one invocation of UploadService.retry
  submittedListings,\* this.submittedListings = new Set()
  status,           \* this.status
  scans,            \* the invocations of scanAndSubmit
  direct,           \* a call of submitWork from outside scanAndSubmit
  scored,           \* the last call of scoreListing: argument and result
  apiKey,           \* this.apiKey of each agent is set
  call,             \* one call of an I/O method of an agent
  timers,           \* the interval, timeout and cron timers that exist
  upload,           \* one call of downloadAndUploadImage / ...Video
  pumpfunType,      \* let pumpfunType
  pumpRuns,         \* the invocations of runPumpFunPost in flight
  pumpPicked,       \* history: types taken by unforced triggers, in order
  agentReady,       \* main: colosseum.run() completed
  crons,            \* the cron tasks scheduled (xNewsCron, showcaseCron,
                    \* pumpfunCron not null)
  heartbeatInterval,\* this.heartbeatInterval is set
  heartbeats,       \* calls of fetchHeartbeat in flight
  shuttingDown,     \* the SIGINT/SIGTERM handler has run
  listening,        \* the HTTP server accepts requests
  exited,           \* process.exit was called
  pendingPosts,     \* POST /trigger requests accepted, body not yet read
  lastResult,       \* history: what the run that ended last returned
  escaped,          \* history: an exception left its handler uncaught
  noted             \* history: the publish calls and the rejected submissions,
                    \* in order, where the specification notes them

newsVars == <<xNewsIndex, recentNewsUrls, newsRuns, urlsSeen, recorded,
              xNewsPicked, lastPost>>
showcaseVars == <<modelIndex, showcaseRuns, modelPicked>>
pumpVars == <<pumpfunType, pumpRuns, pumpPicked>>
scanVars == <<submittedListings, status, scans, direct>>
procVars == <<agentReady, crons, heartbeatInterval, heartbeats, shuttingDown,
              listening, exited>>
outVars == <<lastResult, escaped, noted>>
callVars == <<apiKey, call, timers, upload>>
vars == <<newsVars, showcaseVars, pumpVars, retry, scanVars, scored, callVars, procVars,
          pendingPosts, outVars>>

(***************************************************************************)
(* Helpers                                                                 *)
(***************************************************************************)
Min(a, b) == IF a < b THEN a ELSE b

Range(s) == {s[i] : i \in DOMAIN s}

\* Array.prototype.includes
Includes(s, x) == \E i \in DOMAIN s : s[i] = x

\* the last n elements of s, in order
LastN(s, n) == SubSeq(s, Len(s) - Min(n, Len(s)) + 1, Len(s))

\* the slot a new invocation takes: the lowest idle one
IsFreeSlot(runs, s) ==
  /\ runs[s].pc = "idle"
  /\ \A t \in Runs : t < s => runs[t].pc # "idle"

NoRun == [pc |-> "idle", live |-> FALSE, url |-> NoUrl, option |-> NoForce]

NoResult == [outcome |-> "none", post |-> "none", success |-> FALSE]

\* Who starts a run of pipeline p: a tick of its cron task, the handler of
\* POST /trigger/<p> (503 without an agent) or the handler of GET /test/<p>.
\* The POST handler runs once express.json() has read the body, which may
\* be after the request was accepted.
\* the runs of every pipeline
AllRuns == <<newsRuns, showcaseRuns, pumpRuns>>

\* variant: a run starts only when no run of any pipeline is in flight
CanTriggerExclusive(p, src) ==
  /\ ~exited
  /\ src = "cron" => p \in crons
  /\ src = "live" => agentReady /\ (listening \/ p \in pendingPosts)
  /\ src = "preview" => listening
  /\ \A i \in 1..3 : \A s \in Runs : AllRuns[i][s].pc = "idle"

\* variant: the live trigger does not look at the agent
CanTriggerWithoutAgent(p, src) ==
  /\ ~exited
  /\ src = "cron" => p \in crons
  /\ src = "live" => (listening \/ p \in pendingPosts)
  /\ src = "preview" => listening

CanTrigger(p, src) ==
  /\ ~exited
  /\ src = "cron" => p \in crons
  /\ src = "live" => agentReady /\ (listening \/ p \in pendingPosts)
  /\ src = "preview" => listening

PendingAfter(p, src) ==
  IF src = "live" THEN pendingPosts \ {p} ELSE pendingPosts

\* the option a run works on is followed only where b.track asks for it
Tracked(option, b) == IF b.track THEN option ELSE NoForce

\* variant: the callers that pass an agent (the cron callbacks, the POST
\* handlers) await the run outside try/catch
EscapesFromLive(live) == live

\* an exception thrown by a run leaves its caller: never, the cron callbacks
\* and the HTTP handlers all await the run inside try/catch
Escapes(live) == FALSE

\* the run threw: the caller logs the error (HTTP: 500, success: false)
Thrown == [outcome |-> "threw", post |-> "none", success |-> FALSE]

\* variant: the run without content reports success
NoContentSucceeds == [outcome |-> "nocontent", post |-> "none", success |-> TRUE]

\* return { success: false, message: 'No ...' }
NoContent == [outcome |-> "nocontent", post |-> "none", success |-> FALSE]

\* return { success: true, ..., forumPostId: forumResult?.post?.id || null }
Returned(post) == [outcome |-> "returned", post |-> post, success |-> TRUE]

(***************************************************************************)
(* Dedup window                                                            *)
(***************************************************************************)
\* variant: appends and never evicts
TrackNoEvict(window, url) ==
  IF url # NoUrl THEN Append(window, url) ELSE window

\* variant: a re-seen identifier is refreshed to the back (LRU)
TrackRefresh(window, url) ==
  IF url # NoUrl
    THEN LET kept == SelectSeq(window, LAMBDA x : x # url)
             pushed == Append(kept, url)
         IN  IF Len(pushed) > MAX_RECENT THEN Tail(pushed) ELSE pushed
    ELSE window

TrackNewsUrl(window, url) ==
  IF url # NoUrl
    THEN LET pushed == Append(window, url)
         IN  IF Len(pushed) > MAX_RECENT THEN Tail(pushed) ELSE pushed
    ELSE window

\* newsItems.filter(item => !recentNewsUrls.includes(item.news_url))
\* variant: an item is compared with the newest entry of the window only
FilterAgainstLast(items, window) ==
  {u \in items : window = <<>> \/ window[Len(window)] # u}

FilterNovel(items, window) == {u \in items : ~Includes(window, u)}

(***************************************************************************)
(* Rotation cursors                                                        *)
(***************************************************************************)
\* variant: advance-then-select
\* variant: the cursor stays on the last option instead of wrapping
SelectNoWrap(options, index, force) ==
  IF force # NoForce THEN force
  ELSE options[Min(index, Len(options) - 1) + 1]

SelectAfterAdvance(options, index, force) ==
  IF force # NoForce THEN force ELSE options[((index + 1) % Len(options)) + 1]

SelectOption(options, index, force) ==
  IF force # NoForce THEN force ELSE options[(index % Len(options)) + 1]

\* the cursor is left where it was
KeepIndex(index, force) == index

\* variant: forced triggers advance the cursor too
AdvanceAlways(index, force) == index + 1

\* variant: the cursor is read before and written after a suspension point, so
\* a trigger that arrives while a run is in flight writes back the value the
\* run in flight already wrote
AdvanceLostUpdate(index, force) ==
  IF force = NoForce
       /\ \A s \in Runs : newsRuns[s].pc = "idle" /\ showcaseRuns[s].pc = "idle"
    THEN index + 1
    ELSE index

AdvanceIndex(index, force) ==
  IF force = NoForce THEN index + 1 ELSE index

(***************************************************************************)
(* Pipeline 1: X News.  A trigger is a cron tick (runXNewsPost(_agent)),   *)
(* POST /trigger/x-news (live, optional account) or GET /test/x-news       *)
(* (preview, agent = null, optional account).  b bounds the exploration.   *)
(***************************************************************************)
XNewsTrigger(s, src, force, b) ==
  /\ CanTrigger("xnews", src)
  /\ IsFreeSlot(newsRuns, s)
  /\ Len(recorded) >= b.overlap => \A t \in Runs : newsRuns[t].pc = "idle"
  /\ src = "cron" => force = NoForce
  /\ force = NoForce => xNewsIndex < b.idx
  /\ xNewsIndex' = AdvanceIndex(xNewsIndex, force)
  /\ xNewsPicked' = IF force = NoForce
                      THEN Append(xNewsPicked,
                                  SelectOption(X_NEWS_ACCOUNTS, xNewsIndex, force))
                      ELSE xNewsPicked
  /\ newsRuns' = [newsRuns EXCEPT ![s] =
                    [pc |-> "fetch", live |-> (src # "preview"), url |-> NoUrl,
                     option |-> Tracked(SelectOption(X_NEWS_ACCOUNTS,
                                                     xNewsIndex, force), b)]]
  /\ pendingPosts' = PendingAfter("xnews", src)
  /\ UNCHANGED <<recentNewsUrls, urlsSeen, recorded, lastPost>>
  /\ UNCHANGED <<showcaseVars, pumpVars, retry, scanVars, scored, callVars, procVars>>
  /\ UNCHANGED outVars

\* callGrokApi rejects: the exception leaves runXNewsPost
XNewsFetchThrow(s) ==
  /\ newsRuns[s].pc = "fetch"
  /\ newsRuns' = [newsRuns EXCEPT ![s] = NoRun]
  /\ lastPost' = "threw"
  /\ lastResult' = Thrown
  /\ escaped' = (escaped \/ Escapes(newsRuns[s].live))
  /\ UNCHANGED noted
  /\ UNCHANGED <<xNewsIndex, recentNewsUrls, urlsSeen, recorded, xNewsPicked>>
  /\ UNCHANGED <<showcaseVars, pumpVars, retry, scanVars, scored, callVars, procVars>>
  /\ UNCHANGED pendingPosts

\* The response is filtered against the window and the newest item left is
\* taken.  Dates are free, so the item taken is any novel item of the
\* response: the response is followed through that item alone.
XNewsFetchReturn(s, b) ==
  /\ newsRuns[s].pc = "fetch"
  /\ \E items \in {{}} \cup {{u} : u \in 0..Min(urlsSeen + 1, b.urls)} :
       LET novel == FilterNovel(items, recentNewsUrls)
       IN  IF novel = {}
             THEN /\ newsRuns' = [newsRuns EXCEPT ![s] = NoRun]
                  /\ lastPost' = "nonews"
                  /\ lastResult' = NoContent
                  /\ UNCHANGED urlsSeen
             ELSE \E top \in novel :
                    /\ Len(recorded)
                         + Cardinality({t \in Runs : newsRuns[t].pc
                                           \in {"title", "banner", "post"}})
                         < b.recs
                    /\ newsRuns' = [newsRuns EXCEPT ![s].pc = "title",
                                                     ![s].url = top]
                    /\ urlsSeen' = IF top > urlsSeen THEN top ELSE urlsSeen
                    /\ UNCHANGED <<lastPost, lastResult>>
  /\ UNCHANGED <<xNewsIndex, recentNewsUrls, recorded, xNewsPicked>>
  /\ UNCHANGED <<showcaseVars, pumpVars, retry, scanVars, scored, callVars, procVars>>
  /\ UNCHANGED <<pendingPosts, escaped, noted>>

\* generateNewsTitle: falls back on any error, never throws
XNewsTitle(s) ==
  /\ newsRuns[s].pc = "title"
  /\ newsRuns' = [newsRuns EXCEPT ![s].pc = "banner"]
  /\ UNCHANGED <<xNewsIndex, recentNewsUrls, urlsSeen, recorded, xNewsPicked,
                 lastPost>>
  /\ UNCHANGED <<showcaseVars, pumpVars, retry, scanVars, scored, callVars, procVars>>
  /\ UNCHANGED <<pendingPosts, outVars>>

\* generateNewsBanner: returns null on any error, never throws
XNewsBanner(s) ==
  /\ newsRuns[s].pc = "banner"
  /\ newsRuns' = [newsRuns EXCEPT ![s].pc = "post"]
  /\ UNCHANGED <<xNewsIndex, recentNewsUrls, urlsSeen, recorded, xNewsPicked,
                 lastPost>>
  /\ UNCHANGED <<showcaseVars, pumpVars, retry, scanVars, scored, callVars, procVars>>
  /\ UNCHANGED <<pendingPosts, outVars>>

\* a call of createForumPost, as noted
PostEntry(pipeline, item, post) ==
  [kind |-> "post", pipeline |-> pipeline, item |-> item, post |-> post]

\* a submission answered 403, as noted
BlockedEntry(id) ==
  [kind |-> "blocked", pipeline |-> "superteam", item |-> id, post |-> "none"]

\* the publish calls noted: a run without agent makes none
NotePost(b, pipeline, item, post) ==
  IF b.note /\ post # "skipped"
    THEN Append(noted, PostEntry(pipeline, item, post))
    ELSE noted

\* variant: createForumPost is called whether or not there is an agent
PostAlways(live, accepted) == IF accepted THEN "ok" ELSE "failed"

\* postToForum: null without an agent ("skipped": createForumPost is not
\* called), else createForumPost, which returns the response ("ok") or null
\* on any error ("failed")
PostToForum(live, accepted) ==
  IF ~live THEN "skipped" ELSE IF accepted THEN "ok" ELSE "failed"

\* Step 5 and the return: postToForum resolves, then trackNewsUrl
XNewsPostReturn(s, b) ==
  /\ newsRuns[s].pc = "post"
  /\ \E accepted \in BOOLEAN :
       /\ lastPost' = PostToForum(newsRuns[s].live, accepted)
       /\ lastResult' = Returned(PostToForum(newsRuns[s].live, accepted))
       /\ noted' = NotePost(b, "xnews", newsRuns[s].url,
                            PostToForum(newsRuns[s].live, accepted))
  /\ recentNewsUrls' = TrackNewsUrl(recentNewsUrls, newsRuns[s].url)
  /\ recorded' = IF newsRuns[s].url # NoUrl
                   THEN Append(recorded, newsRuns[s].url)
                   ELSE recorded
  /\ newsRuns' = [newsRuns EXCEPT ![s] = NoRun]
  /\ UNCHANGED <<xNewsIndex, urlsSeen, xNewsPicked>>
  /\ UNCHANGED <<showcaseVars, pumpVars, retry, scanVars, scored, callVars, procVars>>
  /\ UNCHANGED <<pendingPosts, escaped>>

\* the steps of runXNewsPost after the trigger
XNewsSteps(slots, b) ==
  \/ \E s \in slots : XNewsFetchThrow(s)
  \/ \E s \in slots : XNewsFetchReturn(s, b)
  \/ \E s \in slots : XNewsTitle(s)
  \/ \E s \in slots : XNewsBanner(s)
  \/ \E s \in slots : XNewsPostReturn(s, b)

NextNews(b) ==
  \/ \E s \in Runs, src \in b.srcs, force \in b.forces :
       XNewsTrigger(s, src, force, b)
  \/ XNewsSteps(Runs, b)

(***************************************************************************)
(* Pipeline 2: Image Showcase.  Triggers as for X News: a cron tick, POST  *)
(* /trigger/image-showcase or GET /test/image-showcase.                    *)
(***************************************************************************)
\* variant: Image Showcase rotates on the cursor of X News instead of its own
ShowcaseTriggerSharedIndex(s, src, force, b) ==
  /\ CanTrigger("showcase", src)
  /\ IsFreeSlot(showcaseRuns, s)
  /\ src = "cron" => force = NoForce
  /\ force = NoForce => Len(modelPicked) < b.idx
  /\ xNewsIndex' = AdvanceIndex(xNewsIndex, force)
  /\ modelPicked' = IF force = NoForce
                      THEN Append(modelPicked,
                                  SelectOption(IMAGE_MODELS, xNewsIndex, force))
                      ELSE modelPicked
  /\ showcaseRuns' = [showcaseRuns EXCEPT ![s] =
                        [pc |-> "prompt", live |-> (src # "preview"),
                         url |-> NoUrl,
                         option |-> Tracked(SelectOption(IMAGE_MODELS,
                                                         xNewsIndex, force),
                                            b)]]
  /\ pendingPosts' = PendingAfter("showcase", src)
  /\ UNCHANGED <<modelIndex, recentNewsUrls, newsRuns, urlsSeen, recorded,
                 xNewsPicked, lastPost>>
  /\ UNCHANGED <<pumpVars, retry, scanVars, scored, callVars, procVars>>
  /\ UNCHANGED outVars

ShowcaseTrigger(s, src, force, b) ==
  /\ CanTrigger("showcase", src)
  /\ IsFreeSlot(showcaseRuns, s)
  /\ src = "cron" => force = NoForce
  /\ force = NoForce => modelIndex < b.idx
  /\ modelIndex' = AdvanceIndex(modelIndex, force)
  /\ modelPicked' = IF force = NoForce
                      THEN Append(modelPicked,
                                  SelectOption(IMAGE_MODELS, modelIndex, force))
                      ELSE modelPicked
  /\ showcaseRuns' = [showcaseRuns EXCEPT ![s] =
                        [pc |-> "prompt", live |-> (src # "preview"),
                         url |-> NoUrl,
                         option |-> Tracked(SelectOption(IMAGE_MODELS,
                                                         modelIndex, force),
                                            b)]]
  /\ pendingPosts' = PendingAfter("showcase", src)
  /\ UNCHANGED <<newsVars, pumpVars, retry, scanVars, scored, callVars, procVars>>
  /\ UNCHANGED outVars

\* generateCreativePrompt: falls back on any error, never throws
ShowcasePrompt(s) ==
  /\ showcaseRuns[s].pc = "prompt"
  /\ showcaseRuns' = [showcaseRuns EXCEPT ![s].pc = "image"]
  /\ UNCHANGED <<modelIndex, modelPicked>>
  /\ UNCHANGED <<newsVars, pumpVars, retry, scanVars, scored, callVars, procVars>>
  /\ UNCHANGED <<pendingPosts, outVars>>

\* generateImage resolves, or rejects and the exception leaves the run
ShowcaseImage(s) ==
  /\ showcaseRuns[s].pc = "image"
  /\ \E ok \in BOOLEAN :
       IF ok
         THEN /\ showcaseRuns' = [showcaseRuns EXCEPT ![s].pc = "review"]
              /\ UNCHANGED outVars
         ELSE /\ showcaseRuns' = [showcaseRuns EXCEPT ![s] = NoRun]
              /\ lastResult' = Thrown
              /\ escaped' = (escaped \/ Escapes(showcaseRuns[s].live))
              /\ UNCHANGED noted
  /\ UNCHANGED <<modelIndex, modelPicked>>
  /\ UNCHANGED <<newsVars, pumpVars, retry, scanVars, scored, callVars, procVars>>
  /\ UNCHANGED pendingPosts

\* generateModelReview: falls back on any error, never throws
ShowcaseReview(s) ==
  /\ showcaseRuns[s].pc = "review"
  /\ showcaseRuns' = [showcaseRuns EXCEPT ![s].pc = "post"]
  /\ UNCHANGED <<modelIndex, modelPicked>>
  /\ UNCHANGED <<newsVars, pumpVars, retry, scanVars, scored, callVars, procVars>>
  /\ UNCHANGED <<pendingPosts, outVars>>

\* postToForum resolves and the run returns success
ShowcasePostReturn(s, b) ==
  /\ showcaseRuns[s].pc = "post"
  /\ \E accepted \in BOOLEAN :
       /\ lastResult' = Returned(PostToForum(showcaseRuns[s].live, accepted))
       /\ noted' = NotePost(b, "showcase", showcaseRuns[s].option,
                            PostToForum(showcaseRuns[s].live, accepted))
  /\ showcaseRuns' = [showcaseRuns EXCEPT ![s] = NoRun]
  /\ UNCHANGED <<modelIndex, modelPicked>>
  /\ UNCHANGED <<newsVars, pumpVars, retry, scanVars, scored, callVars, procVars>>
  /\ UNCHANGED <<pendingPosts, escaped>>

\* the steps of runImageShowcase after the trigger
ShowcaseSteps(slots, b) ==
  \/ \E s \in slots : ShowcasePrompt(s)
  \/ \E s \in slots : ShowcaseImage(s)
  \/ \E s \in slots : ShowcaseReview(s)
  \/ \E s \in slots : ShowcasePostReturn(s, b)

NextShowcase(b) ==
  \/ \E s \in Runs, src \in b.srcs, force \in b.forces :
       ShowcaseTrigger(s, src, force, b)
  \/ ShowcaseSteps(Runs, b)

(***************************************************************************)
(* Pipeline 3: PumpFun Intel.  Triggers as for X News: a cron tick, POST   *)
(* /trigger/pumpfun or GET /test/pumpfun.                                  *)
(***************************************************************************)
\* variant: the flag is toggled before the type of the run is read
SelectTypeAfterToggle(flag, force) ==
  IF force # NoForce THEN force
  ELSE IF flag = "trending" THEN "movers" ELSE "trending"

\* const type = forceType || pumpfunType
SelectType(flag, force) == IF force # NoForce THEN force ELSE flag

\* if (!forceType) pumpfunType = pumpfunType === 'trending' ? 'movers'
\*                                                           : 'trending'
ToggleType(flag, force) ==
  IF force = NoForce
    THEN IF flag = "trending" THEN "movers" ELSE "trending"
    ELSE flag

\* variant: a preview reads the flag and leaves it as it is
PumpTriggerPreviewKeeps(s, src, force, b) ==
  /\ CanTrigger("pumpfun", src)
  /\ IsFreeSlot(pumpRuns, s)
  /\ src = "cron" => force = NoForce
  /\ force = NoForce => Len(pumpPicked) < b.idx
  /\ pumpfunType' = IF src = "preview" THEN pumpfunType
                                       ELSE ToggleType(pumpfunType, force)
  /\ pumpPicked' = IF force = NoForce
                     THEN Append(pumpPicked, SelectType(pumpfunType, force))
                     ELSE pumpPicked
  /\ pumpRuns' = [pumpRuns EXCEPT ![s] =
                    [pc |-> "fetch", live |-> (src # "preview"), url |-> NoUrl,
                     option |-> Tracked(SelectType(pumpfunType, force), b)]]
  /\ pendingPosts' = PendingAfter("pumpfun", src)
  /\ UNCHANGED <<newsVars, showcaseVars, retry, scanVars, scored, callVars, procVars>>
  /\ UNCHANGED outVars

PumpTrigger(s, src, force, b) ==
  /\ CanTrigger("pumpfun", src)
  /\ IsFreeSlot(pumpRuns, s)
  /\ src = "cron" => force = NoForce
  /\ force = NoForce => Len(pumpPicked) < b.idx
  /\ pumpfunType' = ToggleType(pumpfunType, force)
  /\ pumpPicked' = IF force = NoForce
                     THEN Append(pumpPicked, SelectType(pumpfunType, force))
                     ELSE pumpPicked
  /\ pumpRuns' = [pumpRuns EXCEPT ![s] =
                    [pc |-> "fetch", live |-> (src # "preview"), url |-> NoUrl,
                     option |-> Tracked(SelectType(pumpfunType, force), b)]]
  /\ pendingPosts' = PendingAfter("pumpfun", src)
  /\ UNCHANGED <<newsVars, showcaseVars, retry, scanVars, scored, callVars, procVars>>
  /\ UNCHANGED outVars

\* getTrending / getMovers rejects and the exception leaves the run, or it
\* resolves without tokens (success: false), or with tokens
PumpFetch(s) ==
  /\ pumpRuns[s].pc = "fetch"
  /\ \E outcome \in {"threw", "nocontent", "tokens"} :
       CASE outcome = "threw" ->
              /\ pumpRuns' = [pumpRuns EXCEPT ![s] = NoRun]
              /\ lastResult' = Thrown
              /\ escaped' = (escaped \/ Escapes(pumpRuns[s].live))
              /\ UNCHANGED noted
         [] outcome = "nocontent" ->
              /\ pumpRuns' = [pumpRuns EXCEPT ![s] = NoRun]
              /\ lastResult' = NoContent
              /\ UNCHANGED <<escaped, noted>>
         [] outcome = "tokens" ->
              /\ pumpRuns' = [pumpRuns EXCEPT ![s].pc = "post"]
              /\ UNCHANGED outVars
  /\ UNCHANGED <<pumpfunType, pumpPicked>>
  /\ UNCHANGED <<newsVars, showcaseVars, retry, scanVars, scored, callVars, procVars>>
  /\ UNCHANGED pendingPosts

\* postToForum resolves and the run returns success
PumpPostReturn(s) ==
  /\ pumpRuns[s].pc = "post"
  /\ \E accepted \in BOOLEAN :
       lastResult' = Returned(PostToForum(pumpRuns[s].live, accepted))
  /\ pumpRuns' = [pumpRuns EXCEPT ![s] = NoRun]
  /\ UNCHANGED <<pumpfunType, pumpPicked>>
  /\ UNCHANGED <<newsVars, showcaseVars, retry, scanVars, scored, callVars, procVars>>
  /\ UNCHANGED <<pendingPosts, escaped, noted>>

\* the steps of runPumpFunPost after the trigger
PumpSteps(slots) ==
  \/ \E s \in slots : PumpFetch(s)
  \/ \E s \in slots : PumpPostReturn(s)

NextPump(b) ==
  \/ \E s \in Runs, src \in b.srcs, force \in b.forces :
       PumpTrigger(s, src, force, b)
  \/ PumpSteps(Runs)

(***************************************************************************)
(* UploadService.retry(fn, maxRetries, delayMs) of services/upload.js.     *)
(* fn is the environment: its k-th invocation resolves with value k or     *)
(* rejects with error k, so the first and the last error differ.           *)
(*   retry.outcomes  history: per invocation, 0 (resolved) or the error    *)
(*   retry.waits     history: the delays slept, in order                   *)
(***************************************************************************)
Delays == {0, 100, 1000}

Undefined == 0 - 1

RetryIdle ==
  [pc |-> "idle", maxRetries |-> 0, delayMs |-> 0, attempt |-> 0,
   lastError |-> Undefined, outcomes |-> <<>>, waits |-> <<>>,
   returned |-> Undefined, thrown |-> Undefined]

RECURSIVE MathPow(_, _)
MathPow(base, exp) == IF exp = 0 THEN 1 ELSE base * MathPow(base, exp - 1)

\* variant: linear instead of exponential
BackoffLinear(delayMs, attempt) == delayMs * attempt

\* const backoff = delayMs * Math.pow(2, attempt - 1)
Backoff(delayMs, attempt) == delayMs * MathPow(2, attempt - 1)

\* variant: the first error is kept
KeepFirstError(lastError, error) ==
  IF lastError = Undefined THEN error ELSE lastError

\* lastError = error
CatchError(lastError, error) == error

\* if (attempt < maxRetries)
HasRetryLeft(attempt, maxRetries) == attempt < maxRetries

\* variant: the loop runs once more than maxRetries
LoopOneMore(r) ==
  IF r.attempt + 1 <= r.maxRetries + 1
    THEN [r EXCEPT !.pc = "fn", !.attempt = @ + 1]
    ELSE [r EXCEPT !.pc = "done", !.attempt = @ + 1, !.thrown = r.lastError]

\* for (...; attempt <= maxRetries; attempt++), then throw lastError
LoopStep(r) ==
  IF r.attempt + 1 <= r.maxRetries
    THEN [r EXCEPT !.pc = "fn", !.attempt = @ + 1]
    ELSE [r EXCEPT !.pc = "done", !.attempt = @ + 1, !.thrown = r.lastError]

\* the call: attempt = 1 enters the loop and invokes fn, or the loop is
\* skipped (maxRetries < 1) and the undefined lastError is thrown
RetryCall(maxRetries, delayMs) ==
  /\ retry.pc \in {"idle", "done"}
  /\ retry' = LoopStep([RetryIdle EXCEPT !.maxRetries = maxRetries,
                                         !.delayMs = delayMs])
  /\ UNCHANGED <<newsVars, showcaseVars, pumpVars, scanVars, scored, callVars, procVars,
                 pendingPosts, outVars>>

\* return await fn()
RetryFnResolves ==
  /\ retry.pc = "fn"
  /\ retry' = [retry EXCEPT !.pc = "done",
                            !.outcomes = Append(@, 0),
                            !.returned = retry.attempt]
  /\ UNCHANGED <<newsVars, showcaseVars, pumpVars, scanVars, scored, callVars, procVars,
                 pendingPosts, outVars>>

\* catch (error): remember it, then sleep before the next attempt, or go on
\* to the loop step at once
RetryFnRejects ==
  /\ retry.pc = "fn"
  /\ LET error == retry.attempt
         caught == [retry EXCEPT
                      !.lastError = CatchError(retry.lastError, error),
                      !.outcomes = Append(@, error)]
     IN  retry' = IF HasRetryLeft(retry.attempt, retry.maxRetries)
                    THEN [caught EXCEPT
                            !.pc = "sleep",
                            !.waits = Append(@, Backoff(retry.delayMs,
                                                        retry.attempt))]
                    ELSE LoopStep(caught)
  /\ UNCHANGED <<newsVars, showcaseVars, pumpVars, scanVars, scored, callVars, procVars,
                 pendingPosts, outVars>>

\* the timer fires: the loop step
RetryWakes ==
  /\ retry.pc = "sleep"
  /\ retry' = LoopStep(retry)
  /\ UNCHANGED <<newsVars, showcaseVars, pumpVars, scanVars, scored, callVars, procVars,
                 pendingPosts, outVars>>

NextRetry ==
  \/ \E maxRetries \in 0..MaxRetriesArg, delayMs \in Delays :
       RetryCall(maxRetries, delayMs)
  \/ RetryFnResolves
  \/ RetryFnRejects
  \/ RetryWakes

(***************************************************************************)
(* UploadService.downloadAndUploadImage / downloadAndUploadVideo: retry    *)
(* around the download and uploadBuffer, which is retry around the storage *)
(* upload.  The external calls are the environment; the k-th of them, if   *)
(* it fails, rejects with error k.                                         *)
(*   upload.outer, upload.inner   the two invocations of retry             *)
(*   upload.downloads, .uploads   history: external calls made so far      *)
(*   upload.image                 what generateImage does with the result  *)
(***************************************************************************)
\* }, 3, 1000) of uploadBuffer and of the two downloadAndUpload methods
UploadRetries == 3
UploadDelay == 1000

NoValue == [success |-> FALSE, url |-> "none", message |-> Undefined]

NoUpload ==
  [pc |-> "idle", caller |-> "none", outer |-> RetryIdle, inner |-> RetryIdle,
   downloads |-> 0, uploads |-> 0, result |-> NoValue, threw |-> FALSE,
   image |-> "none"]

\* generateImage: if (!uploadResult.success) throw ...; return { image_url:
\* uploadResult.url, ... }
GenerateImage(caller, result) ==
  IF caller # "generateImage" THEN "none"
  ELSE IF ~result.success THEN "threw"
  ELSE result.url

\* return await this.retry(...) inside the try
ReturnUpload(u, value) ==
  [u EXCEPT !.pc = "done", !.result = value,
            !.image = GenerateImage(u.caller, value)]

\* variant: the method has no try/catch around its retry
RethrowUpload(u, error) ==
  [u EXCEPT !.pc = "done", !.threw = TRUE]

\* catch (error) { return { success: false, message: error.message } }
CatchUpload(u, error) ==
  ReturnUpload(u, [success |-> FALSE, url |-> "none", message |-> error])

\* the outer fn is invoked: the download is requested
StartDownload(u) == [u EXCEPT !.pc = "download", !.downloads = @ + 1]

\* the inner fn is invoked: s3.upload(params).promise()
StartUpload(u) == [u EXCEPT !.pc = "upload", !.uploads = @ + 1]

\* the loop step of the outer retry
OuterLoop(u) ==
  LET o == LoopStep(u.outer)
  IN  IF o.pc = "fn"
        THEN StartDownload([u EXCEPT !.outer = o])
        ELSE CatchUpload([u EXCEPT !.outer = o], o.thrown)

\* the outer fn rejected: the catch block of the outer retry
OuterCatch(u, error) ==
  LET caught == [u EXCEPT !.outer.lastError = CatchError(@, error),
                          !.outer.outcomes = Append(@, error)]
  IN  IF HasRetryLeft(u.outer.attempt, u.outer.maxRetries)
        THEN [caught EXCEPT
                !.pc = "outersleep",
                !.outer.waits = Append(@, Backoff(u.outer.delayMs,
                                                  u.outer.attempt))]
        ELSE OuterLoop(caught)

\* the loop step of the retry of uploadBuffer; what it throws rejects the
\* outer fn
InnerLoop(u) ==
  LET i == LoopStep(u.inner)
  IN  IF i.pc = "fn"
        THEN StartUpload([u EXCEPT !.inner = i])
        ELSE OuterCatch([u EXCEPT !.inner = i], i.thrown)

UploadCall(caller) ==
  /\ upload.pc \in {"idle", "done"}
  /\ upload' = OuterLoop([NoUpload EXCEPT
                            !.caller = caller,
                            !.outer.maxRetries = UploadRetries,
                            !.outer.delayMs = UploadDelay])
  /\ UNCHANGED <<apiKey, call, timers>>
  /\ UNCHANGED <<newsVars, showcaseVars, pumpVars, retry, scanVars, scored,
                 procVars, pendingPosts, outVars>>

\* the download arrived: uploadBuffer starts its retry
DownloadResolves ==
  /\ upload.pc = "download"
  /\ upload' = InnerLoop([upload EXCEPT
                            !.inner = [RetryIdle EXCEPT
                                         !.maxRetries = UploadRetries,
                                         !.delayMs = UploadDelay]])
  /\ UNCHANGED <<apiKey, call, timers>>
  /\ UNCHANGED <<newsVars, showcaseVars, pumpVars, retry, scanVars, scored,
                 procVars, pendingPosts, outVars>>

DownloadRejects ==
  /\ upload.pc = "download"
  /\ upload' = OuterCatch(upload, upload.downloads + upload.uploads)
  /\ UNCHANGED <<apiKey, call, timers>>
  /\ UNCHANGED <<newsVars, showcaseVars, pumpVars, retry, scanVars, scored,
                 procVars, pendingPosts, outVars>>

\* return { success: true, url, key }: both retries return it
UploadResolves ==
  /\ upload.pc = "upload"
  /\ upload' = ReturnUpload([upload EXCEPT
                               !.inner.pc = "done",
                               !.inner.outcomes = Append(@, 0),
                               !.outer.pc = "done",
                               !.outer.outcomes = Append(@, 0)],
                            [success |-> TRUE, url |-> "cdn",
                             message |-> Undefined])
  /\ UNCHANGED <<apiKey, call, timers>>
  /\ UNCHANGED <<newsVars, showcaseVars, pumpVars, retry, scanVars, scored,
                 procVars, pendingPosts, outVars>>

\* the catch block of the retry of uploadBuffer
UploadRejects ==
  /\ upload.pc = "upload"
  /\ LET error == upload.downloads + upload.uploads
         caught == [upload EXCEPT
                      !.inner.lastError = CatchError(@, error),
                      !.inner.outcomes = Append(@, error)]
     IN  upload' =
           IF HasRetryLeft(upload.inner.attempt, upload.inner.maxRetries)
             THEN [caught EXCEPT
                     !.pc = "innersleep",
                     !.inner.waits = Append(@, Backoff(upload.inner.delayMs,
                                                       upload.inner.attempt))]
             ELSE InnerLoop(caught)
  /\ UNCHANGED <<apiKey, call, timers>>
  /\ UNCHANGED <<newsVars, showcaseVars, pumpVars, retry, scanVars, scored,
                 procVars, pendingPosts, outVars>>

\* a backoff timer fires
UploadWakes ==
  /\ upload.pc \in {"innersleep", "outersleep"}
  /\ upload' = IF upload.pc = "innersleep" THEN InnerLoop(upload)
                                           ELSE OuterLoop(upload)
  /\ UNCHANGED <<apiKey, call, timers>>
  /\ UNCHANGED <<newsVars, showcaseVars, pumpVars, retry, scanVars, scored,
                 procVars, pendingPosts, outVars>>

UploadSteps ==
  \/ DownloadResolves
  \/ DownloadRejects
  \/ UploadResolves
  \/ UploadRejects
  \/ UploadWakes

NextUpload ==
  \/ \E caller \in {"generateImage", "generateVideo"} : UploadCall(caller)
  \/ UploadSteps

(***************************************************************************)
(* Superteam Earn agent (agent/superteam.js).  A string is the sequence of *)
(* its characters, so that includes() and toLowerCase() are computed.      *)
(***************************************************************************)
\* String.prototype.includes
StrIncludes(text, kw) ==
  \E i \in 0..(Len(text) - Len(kw)) : SubSeq(text, i + 1, i + Len(kw)) = kw

UpperCase ==
  <<"A", "B", "C", "D", "E", "F", "G", "H", "I", "J", "K", "L", "M", "N", "O",
    "P", "Q", "R", "S", "T", "U", "V", "W", "X", "Y", "Z">>

LowerCase ==
  <<"a", "b", "c", "d", "e", "f", "g", "h", "i", "j", "k", "l", "m", "n", "o",
    "p", "q", "r", "s", "t", "u", "v", "w", "x", "y", "z">>

\* String.prototype.toLowerCase
ToLowerCase(text) ==
  [i \in DOMAIN text |->
     IF \E k \in DOMAIN UpperCase : UpperCase[k] = text[i]
       THEN LowerCase[CHOOSE k \in DOMAIN UpperCase : UpperCase[k] = text[i]]
       ELSE text[i]]

\* static CAPABILITY_KEYWORDS, in the order Object.entries walks it
CATEGORIES == <<"image", "video", "defi", "ai", "solana", "agent", "content">>

CAPABILITY_KEYWORDS ==
  [image |->
     <<<<"i", "m", "a", "g", "e">>,
       <<"d", "e", "s", "i", "g", "n">>,
       <<"g", "r", "a", "p", "h", "i", "c">>,
       <<"v", "i", "s", "u", "a", "l">>,
       <<"b", "a", "n", "n", "e", "r">>,
       <<"l", "o", "g", "o">>,
       <<"i", "l", "l", "u", "s", "t", "r", "a", "t", "i", "o", "n">>,
       <<"c", "r", "e", "a", "t", "i", "v", "e">>,
       <<"a", "r", "t">>>>,
   video |->
     <<<<"v", "i", "d", "e", "o">>,
       <<"a", "n", "i", "m", "a", "t", "i", "o", "n">>,
       <<"m", "o", "t", "i", "o", "n">>,
       <<"c", "l", "i", "p">>>>,
   defi |->
     <<<<"d", "e", "f", "i">>,
       <<"t", "o", "k", "e", "n">>,
       <<"t", "r", "a", "d", "i", "n", "g">>,
       <<"a", "n", "a", "l", "y", "t", "i", "c", "s">>,
       <<"p", "u", "m", "p", "f", "u", "n">>,
       <<"d", "e", "x">>,
       <<"s", "w", "a", "p">>,
       <<"m", "a", "r", "k", "e", "t">>>>,
   ai |->
     <<<<"a", "i">>,
       <<"a", "r", "t", "i", "f", "i", "c", "i", "a", "l", " ", "i", "n", "t", "e", "l", "l", "i", "g", "e", "n", "c", "e">>,
       <<"m", "a", "c", "h", "i", "n", "e", " ", "l", "e", "a", "r", "n", "i", "n", "g">>,
       <<"g", "e", "n", "e", "r", "a", "t", "e">>,
       <<"g", "e", "n", "e", "r", "a", "t", "i", "o", "n">>>>,
   solana |->
     <<<<"s", "o", "l", "a", "n", "a">>,
       <<"s", "p", "l">>,
       <<"s", "o", "l">>,
       <<"b", "l", "o", "c", "k", "c", "h", "a", "i", "n">>,
       <<"w", "e", "b", "3">>,
       <<"o", "n", "-", "c", "h", "a", "i", "n">>>>,
   agent |->
     <<<<"a", "g", "e", "n", "t">>,
       <<"a", "u", "t", "o", "n", "o", "m", "o", "u", "s">>,
       <<"b", "o", "t">>,
       <<"a", "u", "t", "o", "m", "a", "t", "i", "o", "n">>>>,
   content |->
     <<<<"c", "o", "n", "t", "e", "n", "t">>,
       <<"w", "r", "i", "t", "e">>,
       <<"a", "r", "t", "i", "c", "l", "e">>,
       <<"b", "l", "o", "g">>,
       <<"n", "e", "w", "s", "l", "e", "t", "t", "e", "r">>,
       <<"n", "e", "w", "s">>,
       <<"s", "o", "c", "i", "a", "l", " ", "m", "e", "d", "i", "a">>>>]

\* listing texts the discovery service returns (a missing field is empty:
\* listing.title || '')
Absent == <<>>
TitleLogo == <<"D", "e", "s", "i", "g", "n", " ", "a", " ", "L", "o", "g",
    "o">>
TitleBot == <<"S", "o", "l", "a", "n", "a", " ", "D", "e", "F", "i", " ",
    "B", "o", "t">>
TitleAudit == <<"S", "m", "a", "r", "t", " ", "C", "o", "n", "t", "r", "a",
    "c", "t", " ", "A", "u", "d", "i", "t">>
TitleThread == <<"W", "r", "i", "t", "e", " ", "a", " ", "T", "h", "r",
    "e", "a", "d">>
TitleClip == <<"A", "I", " ", "V", "i", "d", "e", "o", " ", "C", "l", "i",
    "p">>
DescBanner == <<"m", "a", "k", "e", " ", "a", " ", "b", "a", "n", "n", "e",
    "r", " ", "a", "n", "d", " ", "a", "n", " ", "a", "n", "i", "m", "a",
    "t", "i", "o", "n">>
DescTrading == <<"t", "r", "a", "d", "i", "n", "g", " ", "a", "n", "a",
    "l", "y", "t", "i", "c", "s", " ", "f", "o", "r", " ", "t", "h", "e",
    " ", "t", "o", "k", "e", "n", " ", "m", "a", "r", "k", "e", "t">>
DescDocs == <<"m", "a", "i", "n", "t", "a", "i", "n", " ", "t", "h", "e",
    " ", "d", "o", "c", "s">>
DescAgent == <<"a", "u", "t", "o", "n", "o", "m", "o", "u", "s", " ", "a",
    "g", "e", "n", "t", " ", "g", "e", "n", "e", "r", "a", "t", "i", "n",
    "g", " ", "n", "e", "w", "s", " ", "c", "o", "n", "t", "e", "n", "t",
    " ", "o", "n", "-", "c", "h", "a", "i", "n">>
SlugLogo == <<"l", "o", "g", "o", "-", "d", "e", "s", "i", "g", "n">>
SlugSol == <<"s", "o", "l", "-", "b", "o", "u", "n", "t", "y">>
SlugWeb3 == <<"w", "e", "b", "3", "-", "n", "e", "w", "s", "l", "e", "t",
    "t", "e", "r">>

\* a listing of the discovery response; id 0 stands for no listing
Listing(id, title, description, slug) ==
  [id |-> id, title |-> title, description |-> description, slug |-> slug]

\* the marketplace: the listings the discovery service can return
Pool ==
  <<Listing(1, TitleBot, DescAgent, SlugSol),
    Listing(2, TitleClip, DescBanner, SlugWeb3),
    Listing(3, TitleLogo, DescTrading, SlugSol),
    Listing(4, TitleAudit, Absent, Absent),
    Listing(5, TitleThread, DescDocs, Absent)>>

\* `${listing.title || ''} ${listing.description || ''} ${listing.slug || ''}`
ListingText(listing) ==
  ToLowerCase(listing.title \o <<" ">> \o listing.description \o <<" ">>
                \o listing.slug)

\* variant: no break, every matching keyword counts
RECURSIVE KeywordHitsNoBreak(_, _, _)
KeywordHitsNoBreak(text, keywords, k) ==
  IF k > Len(keywords) THEN 0
  ELSE (IF StrIncludes(text, keywords[k]) THEN 1 ELSE 0)
         + KeywordHitsNoBreak(text, keywords, k + 1)

\* for (const kw of keywords) { if (text.includes(kw)) { ...; break; } }:
\* how often the category is pushed, walking the keywords from the k-th
RECURSIVE KeywordHits(_, _, _)
KeywordHits(text, keywords, k) ==
  IF k > Len(keywords) THEN 0
  ELSE IF StrIncludes(text, keywords[k]) THEN 1
  ELSE KeywordHits(text, keywords, k + 1)

RECURSIVE Repeat(_, _)
Repeat(x, n) == IF n = 0 THEN <<>> ELSE <<x>> \o Repeat(x, n - 1)

\* the outer loop over the categories, from the c-th
RECURSIVE ScoreFrom(_, _, _)
ScoreFrom(text, c, acc) ==
  IF c > Len(CATEGORIES) THEN acc
  ELSE LET hits == KeywordHits(text, CAPABILITY_KEYWORDS[CATEGORIES[c]], 1)
       IN  ScoreFrom(text, c + 1,
                     [score |-> acc.score + hits,
                      matchedCategories |->
                        acc.matchedCategories \o Repeat(CATEGORIES[c], hits)])

ScoreListing(listing) ==
  ScoreFrom(ListingText(listing), 1, [score |-> 0, matchedCategories |-> <<>>])

\* scoreListing over the listings of the pool, computed once
PoolScores == [i \in DOMAIN Pool |-> ScoreListing(Pool[i])]

\* this.scoreListing(l) for a listing of the pool
ScoreOf(listing) == PoolScores[listing.id]

MIN_SCORE == 2

MAX_PER_SCAN == 3

\* variant: ties are reversed (an unstable sort)
RECURSIVE InsertBeforeTies(_, _)
InsertBeforeTies(x, sorted) ==
  IF sorted = <<>> THEN <<x>>
  ELSE IF Head(sorted).score > x.score
         THEN <<Head(sorted)>> \o InsertBeforeTies(x, Tail(sorted))
         ELSE <<x>> \o sorted

\* x goes behind every element the comparator does not put after it
\* ((a, b) => b.score - a.score; Array.prototype.sort is stable)
RECURSIVE InsertByScore(_, _)
InsertByScore(x, sorted) ==
  IF sorted = <<>> THEN <<x>>
  ELSE IF Head(sorted).score >= x.score
         THEN <<Head(sorted)>> \o InsertByScore(x, Tail(sorted))
         ELSE <<x>> \o sorted

\* .sort((a, b) => b.score - a.score)
RECURSIVE SortByScore(_)
SortByScore(items) ==
  IF items = <<>> THEN <<>>
  ELSE InsertByScore(items[Len(items)],
                     SortByScore(SubSeq(items, 1, Len(items) - 1)))

\* variant: the submittedListings filter is missing
CandidatesUnfiltered(listings, submittedSet) ==
  SortByScore(
    SelectSeq([i \in DOMAIN listings |->
                 [id |-> listings[i].id,
                  score |-> ScoreOf(listings[i]).score]],
              LAMBDA l : l.score >= MIN_SCORE))

\* variant: the score is not looked at
CandidatesAnyScore(listings, submittedSet) ==
  SortByScore(
    SelectSeq([i \in DOMAIN listings |->
                 [id |-> listings[i].id,
                  score |-> ScoreOf(listings[i]).score]],
              LAMBDA l : l.id \notin submittedSet))

\* listings.map(score).filter(score >= 2).filter(!submitted).sort(...)
Candidates(listings, submittedSet) ==
  SortByScore(
    SelectSeq(
      SelectSeq([i \in DOMAIN listings |->
                   [id |-> listings[i].id,
                    score |-> ScoreOf(listings[i]).score]],
                LAMBDA l : l.score >= MIN_SCORE),
      LAMBDA l : l.id \notin submittedSet))

\* variant: the discovered array itself is sorted
ListingsSortedInPlace(listings) ==
  LET ranked == SortByScore([i \in DOMAIN listings |->
                               [id |-> listings[i].id,
                                score |-> ScoreOf(listings[i]).score]])
  IN  [i \in DOMAIN ranked |-> Pool[ranked[i].id]]

\* the discovered array after Step 2: map() builds a new array, filter()
\* and sort() work on that one
ListingsAfterSelect(listings) == listings

\* candidates.slice(0, 3)
ToSubmit(candidates) ==
  SubSeq(candidates, 1, Min(MAX_PER_SCAN, Len(candidates)))

NoScan ==
  [pc |-> "idle", listings |-> <<>>, after |-> <<>>, snapshot |-> {},
   candidates |-> <<>>,
   toSubmit |-> <<>>, i |-> 0, submitted |-> 0, attempted |-> <<>>]

\* discovery responses: the batches of up to n distinct listings of the pool
Batches(n) ==
  {b \in UNION {[1..k -> DOMAIN Pool] : k \in 1..n} :
     \A i, j \in DOMAIN b : i # j => b[i] # b[j]}

(***************************************************************************)
(* scanAndSubmit.  A scan is started by the timers of startScanner; slots  *)
(* bounds how many are followed at a time.  A finished scan stays in its   *)
(* slot (pc = "done") with what it returned until the slot is taken again. *)
(*   listings   the ids of the listings discoverListings returned          *)
(*   after      the ids of the same array once the candidates were built   *)
(*   snapshot   history: submittedListings when the candidates were built  *)
(*   attempted  history: the listing ids passed to submitWork, in order    *)
(***************************************************************************)
IsFreeScanSlot(s, slots) ==
  /\ s \in slots
  /\ scans[s].pc \in {"idle", "done"}
  /\ \A t \in slots : t < s => scans[t].pc \notin {"idle", "done"}

\* the scan starts and awaits discoverListings({ take: 50 })
ScanStart(s, slots) ==
  /\ IsFreeScanSlot(s, slots)
  /\ scans' = [scans EXCEPT ![s] = [NoScan EXCEPT !.pc = "discover"]]
  /\ UNCHANGED <<submittedListings, status, direct>>
  /\ UNCHANGED <<newsVars, showcaseVars, pumpVars, retry, scored, callVars, procVars,
                 pendingPosts, outVars>>

\* discoverListings fails (401: status = 'blocked') or returns no listing:
\* the scan returns { submitted: 0, scanned: 0 }
ScanDiscoverNothing(s) ==
  /\ scans[s].pc = "discover"
  /\ \E outcome \in {"empty", "unauthorized", "error"} :
       status' = IF outcome = "unauthorized" THEN "blocked" ELSE status
  /\ scans' = [scans EXCEPT ![s].pc = "done"]
  /\ UNCHANGED <<submittedListings, direct>>
  /\ UNCHANGED <<newsVars, showcaseVars, pumpVars, retry, scored, callVars, procVars,
                 pendingPosts, outVars>>

\* discoverListings returns listings: Step 2 builds the candidates, Step 3
\* takes the top ones and calls submitWork for the first
ScanDiscoverReturn(s, maxBatch) ==
  /\ scans[s].pc = "discover"
  /\ \E batch \in Batches(maxBatch) :
       LET listings == [i \in DOMAIN batch |-> Pool[batch[i]]]
           candidates == Candidates(listings, submittedListings)
           toSubmit == ToSubmit(candidates)
       IN  scans' = [scans EXCEPT ![s] =
                       [pc |-> IF toSubmit = <<>> THEN "done" ELSE "submit",
                        listings |-> batch,
                        after |-> [i \in DOMAIN batch |->
                                     ListingsAfterSelect(listings)[i].id],
                        snapshot |-> submittedListings,
                        candidates |-> candidates,
                        toSubmit |-> toSubmit,
                        i |-> IF toSubmit = <<>> THEN 0 ELSE 1,
                        submitted |-> 0,
                        attempted |-> IF toSubmit = <<>> THEN <<>>
                                      ELSE <<toSubmit[1].id>>]]
  /\ UNCHANGED <<submittedListings, status, direct>>
  /\ UNCHANGED <<newsVars, showcaseVars, pumpVars, retry, scored, callVars, procVars,
                 pendingPosts, outVars>>

\* the next iteration of `for (const listing of toSubmit)`: submitWork for
\* the next listing, or the loop is over and the scan returns
NextAttempt(scan) ==
  IF scan.i < Len(scan.toSubmit)
    THEN [scan EXCEPT !.pc = "submit",
                      !.i = @ + 1,
                      !.attempted = Append(@, scan.toSubmit[scan.i + 1].id)]
    ELSE [scan EXCEPT !.pc = "done"]

\* variant: the delay is taken after an accepted submission only
AfterSubmitDelayIfAccepted(scan, outcome) ==
  IF outcome = "accepted"
    THEN [scan EXCEPT !.pc = "comment", !.submitted = @ + 1]
    ELSE NextAttempt(scan)

\* if (result) { submitted++; await this.postComment(...) }, then the delay
AfterSubmit(scan, outcome) ==
  IF outcome = "accepted"
    THEN [scan EXCEPT !.pc = "comment", !.submitted = @ + 1]
    ELSE [scan EXCEPT !.pc = "delay"]

\* submitWork resolves: accepted (the id joins submittedListings and the
\* comment is posted) or null (403 blocked, 429 rate limited: status =
\* 'degraded', any other error)
ScanSubmitReturn(s, note) ==
  /\ scans[s].pc = "submit"
  /\ \E outcome \in {"accepted", "blocked", "ratelimited", "error"} :
       /\ noted' =
            IF /\ note /\ outcome = "blocked"
               /\ ~Includes(noted,
                            BlockedEntry(scans[s].toSubmit[scans[s].i].id))
              THEN Append(noted,
                          BlockedEntry(scans[s].toSubmit[scans[s].i].id))
              ELSE noted
       /\ submittedListings' =
            IF outcome = "accepted"
              THEN submittedListings \cup {scans[s].toSubmit[scans[s].i].id}
              ELSE submittedListings
       /\ status' = IF outcome = "ratelimited" THEN "degraded" ELSE status
       /\ scans' = [scans EXCEPT ![s] = AfterSubmit(scans[s], outcome)]
  /\ UNCHANGED direct
  /\ UNCHANGED <<newsVars, showcaseVars, pumpVars, retry, scored, callVars, procVars,
                 pendingPosts, lastResult, escaped>>

\* postComment resolves (it returns null on any error), the delay starts
ScanCommentReturn(s) ==
  /\ scans[s].pc = "comment"
  /\ scans' = [scans EXCEPT ![s].pc = "delay"]
  /\ UNCHANGED <<submittedListings, status, direct>>
  /\ UNCHANGED <<newsVars, showcaseVars, pumpVars, retry, scored, callVars, procVars,
                 pendingPosts, outVars>>

\* the 2 s delay is over: submitWork for the next listing, or the scan ends
ScanDelayElapsed(s) ==
  /\ scans[s].pc = "delay"
  /\ scans' = [scans EXCEPT ![s] = NextAttempt(scans[s])]
  /\ UNCHANGED <<submittedListings, status, direct>>
  /\ UNCHANGED <<newsVars, showcaseVars, pumpVars, retry, scored, callVars, procVars,
                 pendingPosts, outVars>>

NextScan(slots, maxBatch, note) ==
  \/ \E s \in slots : ScanStart(s, slots)
  \/ \E s \in slots : ScanDiscoverNothing(s)
  \/ \E s \in slots : ScanDiscoverReturn(s, maxBatch)
  \/ \E s \in slots : ScanSubmitReturn(s, note)
  \/ \E s \in slots : ScanCommentReturn(s)
  \/ \E s \in slots : ScanDelayElapsed(s)

(***************************************************************************)
(* submitWork called from outside scanAndSubmit (it is a public method)    *)
(***************************************************************************)
NoDirect == [pc |-> "idle", id |-> 0, result |-> "none"]

SubmitWorkCall(id) ==
  /\ direct.pc = "idle"
  /\ direct' = [pc |-> "call", id |-> id, result |-> "none"]
  /\ UNCHANGED <<submittedListings, status, scans>>
  /\ UNCHANGED <<newsVars, showcaseVars, pumpVars, retry, scored, callVars, procVars,
                 pendingPosts, outVars>>

SubmitWorkReturn ==
  /\ direct.pc = "call"
  /\ \E outcome \in {"accepted", "blocked", "ratelimited", "error"} :
       /\ submittedListings' =
            IF outcome = "accepted"
              THEN submittedListings \cup {direct.id}
              ELSE submittedListings
       /\ status' = IF outcome = "ratelimited" THEN "degraded" ELSE status
       /\ direct' = [direct EXCEPT
                       !.pc = "idle",
                       !.result = IF outcome = "accepted" THEN "accepted"
                                  ELSE "null"]
  /\ UNCHANGED scans
  /\ UNCHANGED <<newsVars, showcaseVars, pumpVars, retry, scored, callVars, procVars,
                 pendingPosts, outVars>>

NextSubmitWork(maxId) ==
  \/ \E id \in 1..maxId : SubmitWorkCall(id)
  \/ SubmitWorkReturn

(***************************************************************************)
(* scoreListing applied to one listing                                     *)
(***************************************************************************)
ScoreInputs ==
  {Listing(0, t, d, g) :
     t \in {Absent, TitleLogo, TitleBot, TitleAudit, TitleThread, TitleClip},
     d \in {Absent, DescBanner, DescTrading, DescDocs, DescAgent},
     g \in {Absent, SlugLogo, SlugSol, SlugWeb3}}

NotScored == [listing |-> Listing(0, Absent, Absent, Absent),
              score |-> 0 - 1, matchedCategories |-> <<>>]

ScoreListingCall(listing) ==
  /\ LET result == ScoreListing(listing)
     IN  scored' = [listing |-> listing,
                    score |-> result.score,
                    matchedCategories |-> result.matchedCategories]
  /\ UNCHANGED <<newsVars, showcaseVars, pumpVars, retry, scanVars, callVars,
                 procVars, pendingPosts, outVars>>

NextScore == \E listing \in ScoreInputs : ScoreListingCall(listing)

(***************************************************************************)
(* The I/O methods of ColosseumAgent and SuperteamEarnAgent, one call at a *)
(* time: the requests each call sends, what it returns, what it changes    *)
(***************************************************************************)
\* listing ids passed to submitWork
MaxCallId == 2

\* methods of ColosseumAgent made of one request that carries headers(),
\* in a try whose catch returns null
ColosseumMethods ==
  {"getStatus", "createForumPost", "replyToPost", "browseForumPosts",
   "createProject", "updateProject", "submitProject"}

\* the same, of SuperteamEarnAgent
SuperteamMethods ==
  {"discoverListings", "getListingDetails", "submitWork", "updateSubmission",
   "getComments", "postComment", "replyToComment"}

\* every method with a network request of its own, register apart
IOMethods ==
  ColosseumMethods \cup SuperteamMethods \cup {"fetchHeartbeat", "respondToPoll"}

AgentOf(method) ==
  IF method \in SuperteamMethods THEN "superteam" ELSE "colosseum"

\* public: requests sent without Authorization header; api: requests sent
\* with it; key: this.apiKey was set when the call began
NoCall ==
  [pc |-> "idle", agent |-> "none", method |-> "none", key |-> TRUE, id |-> 0,
   public |-> 0, api |-> 0, result |-> "none", threw |-> FALSE]

\* variant: headers() hands out a header whatever this.apiKey is
HeadersUnchecked(key) == "headers"

\* headers(): throws unless this.apiKey is set
Headers(key) == IF key THEN "headers" ELSE "throws"

Return(c, result) == [c EXCEPT !.pc = "idle", !.result = result]

\* await axios.<verb>(url, ..., { headers: this.headers() }) inside a try:
\* the argument is evaluated before anything is sent, so a throw of
\* headers() goes to the catch block (caught) with no request made
Authenticated(c, pc, caught) ==
  IF Headers(apiKey[c.agent]) = "throws"
    THEN caught
    ELSE [c EXCEPT !.pc = pc, !.api = @ + 1]

\* what fetchHeartbeat and respondToPoll return once the poll is dealt with
AfterPoll(c) ==
  Return(c, IF c.method = "fetchHeartbeat" THEN "object" ELSE "undefined")

MethodCall(method, id) ==
  /\ call.pc = "idle"
  /\ LET c == [NoCall EXCEPT !.agent = AgentOf(method), !.method = method,
                             !.key = apiKey[AgentOf(method)], !.id = id]
     IN  call' =
           CASE method = "fetchHeartbeat" ->
                  [c EXCEPT !.pc = "heartbeat", !.public = 1]
             [] method = "respondToPoll" ->
                  Authenticated(c, "poll", Return(c, "undefined"))
             [] OTHER ->
                  Authenticated(c, "request", Return(c, "null"))
  /\ UNCHANGED <<apiKey, timers, upload, scanVars>>
  /\ UNCHANGED <<newsVars, showcaseVars, pumpVars, retry, scored, procVars,
                 pendingPosts, outVars>>

\* the response to the request of a one-request method; createProject goes
\* on to updateProject on 409 and 400
MethodResponse(outcome) ==
  /\ call.pc = "request"
  /\ call' =
       IF outcome = "ok" THEN Return(call, "data")
       ELSE IF call.method = "createProject"
               /\ outcome \in {"conflict", "badrequest"}
         THEN Authenticated(call, "update", Return(call, "null"))
         ELSE Return(call, "null")
  /\ submittedListings' =
       IF call.method = "submitWork" /\ outcome = "ok"
         THEN submittedListings \cup {call.id}
         ELSE submittedListings
  /\ status' =
       IF call.method = "discoverListings" /\ outcome = "unauthorized"
         THEN "blocked"
       ELSE IF call.method = "submitWork" /\ outcome = "ratelimited"
         THEN "degraded"
         ELSE status
  /\ UNCHANGED <<apiKey, timers, upload, scans, direct>>
  /\ UNCHANGED <<newsVars, showcaseVars, pumpVars, retry, scored, procVars,
                 pendingPosts, outVars>>

\* the response to the PUT of updateProject called by createProject
UpdateResponse(ok) ==
  /\ call.pc = "update"
  /\ call' = Return(call, IF ok THEN "data" ELSE "null")
  /\ UNCHANGED <<apiKey, timers, upload, scanVars>>
  /\ UNCHANGED <<newsVars, showcaseVars, pumpVars, retry, scored, procVars,
                 pendingPosts, outVars>>

\* fetchHeartbeat: the heartbeat file arrived (or not); then getStatus
HeartbeatResponse(ok) ==
  /\ call.pc = "heartbeat"
  /\ call' = IF ok
               THEN Authenticated(call, "status", Return(call, "object"))
               ELSE Return(call, "null")
  /\ UNCHANGED <<apiKey, timers, upload, scanVars>>
  /\ UNCHANGED <<newsVars, showcaseVars, pumpVars, retry, scored, procVars,
                 pendingPosts, outVars>>

\* fetchHeartbeat: getStatus returned; respondToPoll if status.hasActivePoll
StatusResponse(outcome) ==
  /\ call.pc = "status"
  /\ call' = IF outcome = "poll"
               THEN Authenticated(call, "poll", Return(call, "object"))
               ELSE Return(call, "object")
  /\ UNCHANGED <<apiKey, timers, upload, scanVars>>
  /\ UNCHANGED <<newsVars, showcaseVars, pumpVars, retry, scored, procVars,
                 pendingPosts, outVars>>

\* respondToPoll: the active poll arrived; answer it if it has an id
PollResponse(outcome) ==
  /\ call.pc = "poll"
  /\ call' = IF outcome = "poll"
               THEN Authenticated(call, "respond", AfterPoll(call))
               ELSE AfterPoll(call)
  /\ UNCHANGED <<apiKey, timers, upload, scanVars>>
  /\ UNCHANGED <<newsVars, showcaseVars, pumpVars, retry, scored, procVars,
                 pendingPosts, outVars>>

\* respondToPoll: the answer was accepted or refused; either way it returns
RespondResponse ==
  /\ call.pc = "respond"
  /\ call' = AfterPoll(call)
  /\ UNCHANGED <<apiKey, timers, upload, scanVars>>
  /\ UNCHANGED <<newsVars, showcaseVars, pumpVars, retry, scored, procVars,
                 pendingPosts, outVars>>

\* register: nothing is sent if the key is set; else one request without
\* credentials
RegisterCall(agent) ==
  /\ call.pc = "idle"
  /\ LET c == [NoCall EXCEPT !.agent = agent, !.method = "register",
                             !.key = apiKey[agent]]
     IN  call' = IF apiKey[agent]
                   THEN Return(c, "object")
                   ELSE [c EXCEPT !.pc = "register", !.public = 1]
  /\ UNCHANGED <<apiKey, timers, upload, scanVars>>
  /\ UNCHANGED <<newsVars, showcaseVars, pumpVars, retry, scored, procVars,
                 pendingPosts, outVars>>

\* register: the key arrives and is kept, or the failure is thrown again
RegisterResponse(ok) ==
  /\ call.pc = "register"
  /\ apiKey' = [apiKey EXCEPT ![call.agent] = ok]
  /\ call' = IF ok THEN Return(call, "data")
                   ELSE [call EXCEPT !.pc = "idle", !.threw = TRUE]
  /\ UNCHANGED <<timers, upload, scanVars>>
  /\ UNCHANGED <<newsVars, showcaseVars, pumpVars, retry, scored, procVars,
                 pendingPosts, outVars>>

\* variant: the payload says 'ok' whatever this.status is
GetHeartbeatOk(st) == [status |-> "ok", version |-> "earn-agent-mvp"]

\* getHeartbeat(): the payload built from this.status (the other fields do
\* not depend on the state followed here)
GetHeartbeat(st) == [status |-> st, version |-> "earn-agent-mvp"]

\* reportHeartbeat(): synchronous, no request, no key needed; the status of
\* the payload it returns is kept as the result of the call
ReportHeartbeat ==
  /\ call.pc = "idle"
  /\ call' = [NoCall EXCEPT !.agent = "superteam", !.method = "reportHeartbeat",
                            !.key = apiKey["superteam"],
                            !.result = GetHeartbeat(status).status]
  /\ UNCHANGED <<apiKey, timers, upload, scanVars>>
  /\ UNCHANGED <<newsVars, showcaseVars, pumpVars, retry, scored, procVars,
                 pendingPosts, outVars>>

NextCalls ==
  \/ \E method \in IOMethods :
       \E id \in (IF method = "submitWork" THEN 1..MaxCallId ELSE {0}) :
         MethodCall(method, id)
  \/ \E outcome \in {"ok", "badrequest", "unauthorized", "forbidden",
                     "conflict", "ratelimited", "error"} :
       MethodResponse(outcome)
  \/ \E ok \in BOOLEAN : UpdateResponse(ok)
  \/ \E ok \in BOOLEAN : HeartbeatResponse(ok)
  \/ \E outcome \in {"poll", "nopoll", "error"} : StatusResponse(outcome)
  \/ \E outcome \in {"poll", "nopoll", "error"} : PollResponse(outcome)
  \/ RespondResponse
  \/ \E agent \in {"colosseum", "superteam"} : RegisterCall(agent)
  \/ \E ok \in BOOLEAN : RegisterResponse(ok)

(***************************************************************************)
(* The process: main() has run; cron tasks, heartbeat, HTTP server and the *)
(* SIGINT/SIGTERM handler                                                  *)
(***************************************************************************)
AllCrons == {"xnews", "showcase", "pumpfun"}

\* the heartbeat interval fires: fetchHeartbeat()
HeartbeatTick(maxInFlight) ==
  /\ ~exited
  /\ heartbeatInterval
  /\ heartbeats < maxInFlight
  /\ heartbeats' = heartbeats + 1
  /\ UNCHANGED <<agentReady, crons, heartbeatInterval, shuttingDown, listening,
                 exited, pendingPosts>>
  /\ UNCHANGED <<newsVars, showcaseVars, pumpVars>>
  /\ UNCHANGED <<retry, scanVars, scored, callVars, outVars>>

\* fetchHeartbeat resolves (it catches every error)
HeartbeatDone ==
  /\ heartbeats > 0
  /\ heartbeats' = heartbeats - 1
  /\ UNCHANGED <<agentReady, crons, heartbeatInterval, shuttingDown, listening,
                 exited, pendingPosts>>
  /\ UNCHANGED <<newsVars, showcaseVars, pumpVars>>
  /\ UNCHANGED <<retry, scanVars, scored, callVars, outVars>>

\* the server accepts POST /trigger/<p>; express.json() reads the body
AcceptPost(p) ==
  /\ ~exited
  /\ listening
  /\ p \notin pendingPosts
  /\ pendingPosts' = pendingPosts \cup {p}
  /\ UNCHANGED procVars
  /\ UNCHANGED <<newsVars, showcaseVars, pumpVars>>
  /\ UNCHANGED <<retry, scanVars, scored, callVars, outVars>>

\* the handler answers 503 (no agent) or 400 (invalid option): no run
RejectPost(p) ==
  /\ p \in pendingPosts
  /\ pendingPosts' = pendingPosts \ {p}
  /\ UNCHANGED procVars
  /\ UNCHANGED <<newsVars, showcaseVars, pumpVars>>
  /\ UNCHANGED <<retry, scanVars, scored, callVars, outVars>>

\* stopCron: each task that is set is stopped and set to null
StopCron(tasks) == {}

\* stopHeartbeat: clearInterval, this.heartbeatInterval = null
StopHeartbeat(interval) == FALSE

(***************************************************************************)
(* The timers: the interval and the 30 s timeout of startScanner, the      *)
(* interval of startHeartbeat, the tasks of startCron.  A timer is         *)
(* [kind, n], n counting the start calls of its kind; timers.live holds    *)
(* the timers that can still fire, the three references what the fields    *)
(* scanInterval, heartbeatInterval and xNewsCron / showcaseCron /          *)
(* pumpfunCron point to (0: null).  timers.last is history: the call made  *)
(* last.                                                                   *)
(***************************************************************************)
\* start calls of each kind
MaxStarts == 2

NoTimers ==
  [live |-> {},
   started |-> [scanner |-> 0, heartbeat |-> 0, cron |-> 0],
   scanInterval |-> 0, heartbeatRef |-> 0,
   cronRef |-> [p \in AllCrons |-> 0],
   last |-> "none"]

Timer(kind, n) == [kind |-> kind, n |-> n]

\* the timers main() and SuperteamEarnAgent.run() leave behind
TimersAfterMain(ready, tasks, scanner) ==
  [live |-> (IF ready THEN {Timer("beat", 1)} ELSE {})
            \cup {Timer(p, 1) : p \in tasks}
            \cup (IF scanner THEN {Timer("initial", 1), Timer("scan", 1)}
                             ELSE {}),
   started |-> [scanner |-> IF scanner THEN 1 ELSE 0,
                heartbeat |-> IF ready THEN 1 ELSE 0,
                cron |-> IF tasks # {} THEN 1 ELSE 0],
   scanInterval |-> IF scanner THEN 1 ELSE 0,
   heartbeatRef |-> IF ready THEN 1 ELSE 0,
   cronRef |-> [p \in AllCrons |-> IF p \in tasks THEN 1 ELSE 0],
   last |-> "none"]

\* stopCron: each task that is referenced is stopped, each reference nulled
ClearCron(t) ==
  [t EXCEPT !.live = {x \in @ : ~(x.kind \in AllCrons
                                   /\ x.n = t.cronRef[x.kind])},
            !.cronRef = [p \in AllCrons |-> 0]]

\* variant: startCron schedules its tasks without stopping the old ones
KeepOldCron(t) == t

\* startCron begins with stopCron()
BeforeStartCron(t) == ClearCron(t)

\* startScanner: setTimeout(..., 30000), this.scanInterval = setInterval(...)
StartScanner ==
  /\ timers.started.scanner < MaxStarts
  /\ LET n == timers.started.scanner + 1
     IN  timers' = [timers EXCEPT
                      !.live = @ \cup {Timer("initial", n), Timer("scan", n)},
                      !.started.scanner = n,
                      !.scanInterval = n,
                      !.last = "startScanner"]
  /\ UNCHANGED <<apiKey, call, upload, scanVars>>
  /\ UNCHANGED <<newsVars, showcaseVars, pumpVars, retry, scored, procVars,
                 pendingPosts, outVars>>

\* stopScanner: clearInterval(this.scanInterval) if it is set
StopScanner ==
  /\ timers' = [timers EXCEPT
                  !.live = @ \ {Timer("scan", timers.scanInterval)},
                  !.scanInterval = 0,
                  !.last = "stopScanner"]
  /\ UNCHANGED <<apiKey, call, upload, scanVars>>
  /\ UNCHANGED <<newsVars, showcaseVars, pumpVars, retry, scored, procVars,
                 pendingPosts, outVars>>

\* a timer of the scanner fires: this.scanAndSubmit(), which runs up to its
\* await of discoverListings; the timeout fires once, the interval again
ScannerFires(x, s) ==
  /\ x \in timers.live
  /\ x.kind \in {"initial", "scan"}
  /\ IsFreeScanSlot(s, Runs)
  /\ scans' = [scans EXCEPT ![s] = [NoScan EXCEPT !.pc = "discover"]]
  /\ timers' = [timers EXCEPT
                  !.live = IF x.kind = "initial" THEN @ \ {x} ELSE @,
                  !.last = "scannerFires"]
  /\ UNCHANGED <<apiKey, call, upload, submittedListings, status, direct>>
  /\ UNCHANGED <<newsVars, showcaseVars, pumpVars, retry, scored, procVars,
                 pendingPosts, outVars>>

\* startHeartbeat: this.fetchHeartbeat(), this.heartbeatInterval =
\* setInterval(...)
StartHeartbeat(maxInFlight) ==
  /\ timers.started.heartbeat < MaxStarts
  /\ heartbeats < maxInFlight
  /\ heartbeats' = heartbeats + 1
  /\ heartbeatInterval' = TRUE
  /\ LET n == timers.started.heartbeat + 1
     IN  timers' = [timers EXCEPT
                      !.live = @ \cup {Timer("beat", n)},
                      !.started.heartbeat = n,
                      !.heartbeatRef = n,
                      !.last = "startHeartbeat"]
  /\ UNCHANGED <<agentReady, crons, shuttingDown, listening, exited,
                 pendingPosts>>
  /\ UNCHANGED <<apiKey, call, upload, scanVars>>
  /\ UNCHANGED <<newsVars, showcaseVars, pumpVars, retry, scored, outVars>>

\* stopHeartbeat: clearInterval(this.heartbeatInterval) if it is set
StopHeartbeatCall ==
  /\ heartbeatInterval' = StopHeartbeat(heartbeatInterval)
  /\ timers' = [timers EXCEPT
                  !.live = @ \ {Timer("beat", timers.heartbeatRef)},
                  !.heartbeatRef = 0,
                  !.last = "stopHeartbeat"]
  /\ UNCHANGED <<agentReady, crons, heartbeats, shuttingDown, listening,
                 exited, pendingPosts>>
  /\ UNCHANGED <<apiKey, call, upload, scanVars>>
  /\ UNCHANGED <<newsVars, showcaseVars, pumpVars, retry, scored, outVars>>

\* a heartbeat interval fires: this.fetchHeartbeat()
HeartbeatFires(x, maxInFlight) ==
  /\ x \in timers.live
  /\ x.kind = "beat"
  /\ heartbeats < maxInFlight
  /\ heartbeats' = heartbeats + 1
  /\ timers' = [timers EXCEPT !.last = "heartbeatFires"]
  /\ UNCHANGED <<agentReady, crons, heartbeatInterval, shuttingDown, listening,
                 exited, pendingPosts>>
  /\ UNCHANGED <<apiKey, call, upload, scanVars>>
  /\ UNCHANGED <<newsVars, showcaseVars, pumpVars, retry, scored, outVars>>

\* startCron: stopCron(), then one cron.schedule per pipeline
StartCron ==
  /\ timers.started.cron < MaxStarts
  /\ crons' = AllCrons
  /\ LET n == timers.started.cron + 1
         t == BeforeStartCron(timers)
     IN  timers' = [t EXCEPT
                      !.live = @ \cup {Timer(p, n) : p \in AllCrons},
                      !.started.cron = n,
                      !.cronRef = [p \in AllCrons |-> n],
                      !.last = "startCron"]
  /\ UNCHANGED <<agentReady, heartbeatInterval, heartbeats, shuttingDown,
                 listening, exited, pendingPosts>>
  /\ UNCHANGED <<apiKey, call, upload, scanVars>>
  /\ UNCHANGED <<newsVars, showcaseVars, pumpVars, retry, scored, outVars>>

\* stopCron
StopCronCall ==
  /\ crons' = StopCron(crons)
  /\ timers' = [ClearCron(timers) EXCEPT !.last = "stopCron"]
  /\ UNCHANGED <<agentReady, heartbeatInterval, heartbeats, shuttingDown,
                 listening, exited, pendingPosts>>
  /\ UNCHANGED <<apiKey, call, upload, scanVars>>
  /\ UNCHANGED <<newsVars, showcaseVars, pumpVars, retry, scored, outVars>>

\* the start and stop calls in any order, the timers of the scanner and of
\* the heartbeat firing, what they start coming to an end
NextTimers(maxInFlight) ==
  \/ StartScanner
  \/ StopScanner
  \/ \E x \in timers.live, s \in Runs : ScannerFires(x, s)
  \/ \E s \in Runs : ScanDiscoverNothing(s)
  \/ StartHeartbeat(maxInFlight)
  \/ StopHeartbeatCall
  \/ \E x \in timers.live : HeartbeatFires(x, maxInFlight)
  \/ HeartbeatDone
  \/ StartCron
  \/ StopCronCall

\* SIGINT / SIGTERM: colosseum.stopHeartbeat(), stopCron(), server.close()
Shutdown ==
  /\ ~exited
  /\ shuttingDown' = TRUE
  /\ heartbeatInterval' = StopHeartbeat(heartbeatInterval)
  /\ crons' = StopCron(crons)
  /\ listening' = FALSE
  /\ timers' = [ClearCron(timers) EXCEPT
                  !.live = @ \ {Timer("beat", timers.heartbeatRef)},
                  !.heartbeatRef = 0,
                  !.last = "shutdown"]
  /\ UNCHANGED <<agentReady, heartbeats, exited, pendingPosts>>
  /\ UNCHANGED <<newsVars, showcaseVars, pumpVars>>
  /\ UNCHANGED <<retry, scanVars, scored, apiKey, call, upload,
                 outVars>>

\* process.exit: from the callback of server.close() or after 5 s; whatever
\* is in flight ends with the process
ProcessExit ==
  /\ shuttingDown
  /\ ~exited
  /\ exited' = TRUE
  /\ heartbeats' = 0
  /\ pendingPosts' = {}
  /\ newsRuns' = [s \in Runs |-> NoRun]
  /\ showcaseRuns' = [s \in Runs |-> NoRun]
  /\ pumpRuns' = [s \in Runs |-> NoRun]
  /\ UNCHANGED <<agentReady, crons, heartbeatInterval, shuttingDown, listening>>
  /\ UNCHANGED <<xNewsIndex, recentNewsUrls, urlsSeen, recorded, xNewsPicked,
                 lastPost, modelIndex, modelPicked, pumpfunType, pumpPicked>>
  /\ UNCHANGED <<retry, scanVars, scored, callVars, outVars>>

NextProcess(maxInFlight) ==
  \/ HeartbeatTick(maxInFlight)
  \/ HeartbeatDone
  \/ \E p \in AllCrons : AcceptPost(p)
  \/ \E p \in AllCrons : RejectPost(p)
  \/ Shutdown
  \/ ProcessExit

InitNews ==
  /\ xNewsIndex = 0
  /\ recentNewsUrls = <<>>
  /\ newsRuns = [s \in Runs |-> NoRun]
  /\ urlsSeen = 0
  /\ recorded = <<>>
  /\ xNewsPicked = <<>>
  /\ lastPost = "none"

InitShowcase ==
  /\ modelIndex = 0
  /\ showcaseRuns = [s \in Runs |-> NoRun]
  /\ modelPicked = <<>>

InitRetry == retry = RetryIdle

InitPump ==
  /\ pumpfunType = "trending"
  /\ pumpRuns = [s \in Runs |-> NoRun]
  /\ pumpPicked = <<>>

InitScan ==
  /\ submittedListings = {}
  /\ status = "ok"
  /\ scans = [s \in Runs |-> NoScan]
  /\ direct = NoDirect
  /\ scored = NotScored

\* main() has run: with COLOSSEUM_API_KEY set and colosseum.run() completed
\* the agent is ready and its heartbeat started (the first fetch in flight);
\* the cron tasks are scheduled if moreover XAI_API_KEY is set
InitProcess(ready, tasks) ==
  /\ agentReady = ready
  /\ crons = tasks
  /\ heartbeatInterval = ready
  /\ heartbeats = IF ready THEN 1 ELSE 0
  /\ shuttingDown = FALSE
  /\ listening = TRUE
  /\ exited = FALSE
  /\ pendingPosts = {}
  /\ lastResult = NoResult
  /\ escaped = FALSE
  /\ noted = <<>>

InitPipelines == InitNews /\ InitShowcase /\ InitPump /\ InitRetry /\ InitScan

\* the constructors: this.apiKey = process.env.<AGENT>_API_KEY || null
InitKeys(colosseumKey, superteamKey) ==
  /\ apiKey = [colosseum |-> colosseumKey, superteam |-> superteamKey]
  /\ call = NoCall
  /\ upload = NoUpload

\* main() and SuperteamEarnAgent.run() have started what the keys allow
InitTimers(ready, tasks, scanner) ==
  timers = TimersAfterMain(ready, tasks, scanner)

\* every key is set and colosseum.run() completed
Init ==
  /\ InitPipelines /\ InitProcess(TRUE, AllCrons) /\ InitKeys(TRUE, TRUE)
  /\ InitTimers(TRUE, AllCrons, TRUE)

\* any configuration: no agent, or an agent without XAI_API_KEY (no cron)
InitAny ==
  /\ InitPipelines
  /\ \E ready \in BOOLEAN, tasks \in {AllCrons, {}} :
       /\ tasks # {} => ready
       /\ InitProcess(ready, tasks)
       /\ InitKeys(ready, TRUE)
       /\ InitTimers(ready, tasks, TRUE)

(***************************************************************************)
(* The X News pipeline alone, overlapping runs included                    *)
(***************************************************************************)
NewsBounds ==
  [srcs |-> {"cron", "live", "preview"},
   forces |-> {NoForce, "solana", "payainetwork"},
   idx |-> MaxNewsIndex, urls |-> FeedUrls, recs |-> FeedRecords,
   overlap |-> FeedRecords, track |-> FALSE,
   note |-> FALSE]

SpecNews == Init /\ [][NextNews(NewsBounds)]_vars

(***************************************************************************)
(* The dedup window over a long run of the X News pipeline: more than      *)
(* MAX_RECENT identifiers are recorded, so that eviction happens           *)
(***************************************************************************)
DedupBounds ==
  [srcs |-> {"cron", "live", "preview"},
   forces |-> {NoForce, "solana"},
   idx |-> 1, urls |-> MAX_RECENT + ExtraRecords,
   recs |-> MAX_RECENT + ExtraRecords, overlap |-> OverlapRecords,
   track |-> FALSE,
   note |-> FALSE]

SpecDedup == Init /\ [][NextNews(DedupBounds)]_vars

(***************************************************************************)
(* The rotating pipelines side by side, triggered by cron ticks and live   *)
(* triggers: X News (followed through items without URL only) and Image    *)
(* Showcase                                                                *)
(***************************************************************************)
RotationNewsBounds ==
  [srcs |-> {"cron", "live"},
   forces |-> {NoForce, "payainetwork"},
   idx |-> MaxNewsIndex, urls |-> 0, recs |-> 1, overlap |-> 1,
   track |-> FALSE,
   note |-> FALSE]

RotationShowcaseBounds ==
  [srcs |-> {"cron", "live"}, forces |-> {NoForce, "seedream"},
   idx |-> MaxModelIndex, track |-> FALSE,
   note |-> FALSE]

Next ==
  \/ NextNews(RotationNewsBounds)
  \/ NextShowcase(RotationShowcaseBounds)

Spec == Init /\ [][Next]_vars

(***************************************************************************)
(* The retry helper alone                                                  *)
(***************************************************************************)
SpecRetry == Init /\ [][NextRetry]_vars

(***************************************************************************)
(* The listing scanner, one scan at a time, and the scorer alone           *)
(***************************************************************************)
\* listings per discovery response
MaxBatch == 4

SpecScan == Init /\ [][NextScan({1}, MaxBatch, FALSE)]_vars

SpecScore == Init /\ [][NextScore]_vars

(***************************************************************************)
(* Scans that overlap in time (startScanner takes any interval, and        *)
(* nothing keeps a second scan from starting while one is in flight) and   *)
(* direct calls of submitWork                                              *)
(***************************************************************************)
\* listings per discovery response when scans overlap
OverlapBatch == 1

\* listing ids of direct calls
DirectIds == 1

NextOverlap ==
  \/ NextScan(Runs, OverlapBatch, FALSE)
  \/ NextSubmitWork(DirectIds)

SpecOverlap == Init /\ [][NextOverlap]_vars

(***************************************************************************)
(* The three pipelines under the scheduler alone: every run is started by  *)
(* a tick of its cron task; the X News ticks are hours apart and its runs  *)
(* follow one another, the runs of the other two may overlap               *)
(***************************************************************************)
\* unforced triggers per pipeline under the scheduler
MaxCronTicks == 2

CronNewsBounds ==
  [srcs |-> {"cron"}, forces |-> {NoForce}, idx |-> MaxCronTicks,
   urls |-> 1, recs |-> MaxCronTicks, overlap |-> 0,
   track |-> FALSE,
   note |-> FALSE]

CronBounds ==
  [srcs |-> {"cron"}, forces |-> {NoForce}, idx |-> MaxCronTicks,
   track |-> FALSE,
   note |-> FALSE]

NextCron ==
  \/ NextNews(CronNewsBounds)
  \/ NextShowcase(CronBounds)
  \/ NextPump(CronBounds)

SpecCron == Init /\ [][NextCron]_vars

(***************************************************************************)
(* The PumpFun pipeline alone: cron ticks, live triggers and previews,     *)
(* forced to either type or unforced, overlapping runs included            *)
(***************************************************************************)
\* unforced triggers of the PumpFun pipeline
MaxPumpTriggers == 4

PumpBounds ==
  [srcs |-> {"cron", "live", "preview"},
   forces |-> {NoForce, "trending", "movers"},
   idx |-> MaxPumpTriggers, track |-> TRUE,
   note |-> FALSE]

SpecPump == Init /\ [][NextPump(PumpBounds)]_vars

(***************************************************************************)
(* Forced triggers among unforced ones: the three pipelines, one run of    *)
(* each at a time, started by cron ticks and by live triggers that may     *)
(* name the option                                                         *)
(***************************************************************************)
\* unforced triggers per pipeline among forced ones
MaxForcedIndex == 2

ForcedNewsBounds ==
  [srcs |-> {"cron", "live"}, forces |-> {NoForce, "payainetwork"},
   idx |-> MaxForcedIndex, urls |-> 0, recs |-> 1, overlap |-> 0,
   track |-> TRUE,
   note |-> FALSE]

ForcedShowcaseBounds ==
  [srcs |-> {"cron", "live"}, forces |-> {NoForce, "grok-imagine"},
   idx |-> MaxForcedIndex, track |-> TRUE,
   note |-> FALSE]

ForcedPumpBounds ==
  [srcs |-> {"cron", "live"}, forces |-> {NoForce, "movers"},
   idx |-> MaxForcedIndex, track |-> TRUE,
   note |-> FALSE]

\* one pipeline, one run at a time
OneNews(b) ==
  \/ \E src \in b.srcs, force \in b.forces : XNewsTrigger(1, src, force, b)
  \/ XNewsSteps({1}, b)

OneShowcase(b) ==
  \/ \E src \in b.srcs, force \in b.forces : ShowcaseTrigger(1, src, force, b)
  \/ ShowcaseSteps({1}, b)

OnePump(b) ==
  \/ \E src \in b.srcs, force \in b.forces : PumpTrigger(1, src, force, b)
  \/ PumpSteps({1})

NextForced ==
  \/ OneNews(ForcedNewsBounds)
  \/ OneShowcase(ForcedShowcaseBounds)
  \/ OnePump(ForcedPumpBounds)

SpecForced == Init /\ [][NextForced]_vars

(***************************************************************************)
(* Previews next to live triggers: the three pipelines, one run of each    *)
(* at a time, every run unforced                                           *)
(***************************************************************************)
\* unforced triggers per pipeline, live or preview
MaxPreviewIndex == 2

PreviewNewsBounds ==
  [srcs |-> {"live", "preview"}, forces |-> {NoForce},
   idx |-> MaxPreviewIndex, urls |-> 1, recs |-> 1, overlap |-> 0,
   track |-> TRUE,
   note |-> FALSE]

PreviewBounds ==
  [srcs |-> {"live", "preview"}, forces |-> {NoForce},
   idx |-> MaxPreviewIndex, track |-> TRUE,
   note |-> FALSE]

NextPreview ==
  \/ OneNews(PreviewNewsBounds)
  \/ OneShowcase(PreviewBounds)
  \/ OnePump(PreviewBounds)

SpecPreview == Init /\ [][NextPreview]_vars

(***************************************************************************)
(* X News runs one after the other: a run is triggered only when no run    *)
(* is in flight                                                            *)
(***************************************************************************)
\* X News runs one after the other
MaxSeqRuns == 4

\* distinct URLs the feed returns to runs one after the other
SeqUrls == 3

SeqBounds ==
  [srcs |-> {"cron", "live", "preview"}, forces |-> {NoForce},
   idx |-> MaxSeqRuns, urls |-> SeqUrls, recs |-> SeqUrls, overlap |-> 0,
   track |-> FALSE,
   note |-> FALSE]

SpecSeq == Init /\ [][NextNews(SeqBounds)]_vars

(***************************************************************************)
(* The process from the end of main() to its exit, in any configuration:   *)
(* heartbeat, cron ticks, HTTP triggers and previews, one run of each      *)
(* pipeline at a time, SIGINT / SIGTERM                                    *)
(***************************************************************************)
\* heartbeat fetches in flight
MaxHeartbeats == 2

\* unforced triggers per pipeline during the life of the process
MaxProcTriggers == 1

ProcNewsBounds ==
  [srcs |-> {"cron", "live", "preview"}, forces |-> {NoForce},
   idx |-> MaxProcTriggers, urls |-> 0, recs |-> 1, overlap |-> 0,
   track |-> FALSE,
   note |-> FALSE]

ProcBounds ==
  [srcs |-> {"cron", "live", "preview"}, forces |-> {NoForce},
   idx |-> MaxProcTriggers, track |-> FALSE,
   note |-> FALSE]

NextProc ==
  \/ OneNews(ProcNewsBounds)
  \/ OneShowcase(ProcBounds)
  \/ OnePump(ProcBounds)
  \/ NextProcess(MaxHeartbeats)

SpecProc == InitAny /\ [][NextProc]_vars

(***************************************************************************)
(* Every pipeline at once: the three forum pipelines under the scheduler   *)
(* and the listing scanner, one run of each at a time                      *)
(***************************************************************************)
\* cron ticks per forum pipeline next to the scanner
MaxAllTicks == 1

\* listings per discovery response next to the forum pipelines
AllBatch == 1

AllNewsBounds ==
  [srcs |-> {"cron"}, forces |-> {NoForce}, idx |-> MaxAllTicks,
   urls |-> 1, recs |-> 1, overlap |-> 0, track |-> FALSE,
   note |-> FALSE]

AllBounds ==
  [srcs |-> {"cron"}, forces |-> {NoForce}, idx |-> MaxAllTicks,
   track |-> FALSE,
   note |-> FALSE]

NextAll ==
  \/ OneNews(AllNewsBounds)
  \/ OneShowcase(AllBounds)
  \/ OnePump(AllBounds)
  \/ NextScan({1}, AllBatch, FALSE)

SpecAll == Init /\ [][NextAll]_vars

(***************************************************************************)
(* The scheduler with fair ticks: each cron task keeps firing, and nothing *)
(* is assumed of the external calls, which may stay pending forever        *)
(***************************************************************************)
\* cron ticks per pipeline under the fair scheduler
MaxFairTicks == 2

FairNewsBounds ==
  [srcs |-> {"cron"}, forces |-> {NoForce}, idx |-> MaxFairTicks,
   urls |-> 0, recs |-> 1, overlap |-> 0, track |-> FALSE,
   note |-> FALSE]

FairBounds ==
  [srcs |-> {"cron"}, forces |-> {NoForce}, idx |-> MaxFairTicks,
   track |-> FALSE,
   note |-> FALSE]

\* the tick of each cron task
XNewsTick == XNewsTrigger(1, "cron", NoForce, FairNewsBounds)
ShowcaseTick == ShowcaseTrigger(1, "cron", NoForce, FairBounds)
PumpTick == PumpTrigger(1, "cron", NoForce, FairBounds)

NextFair ==
  \/ OneNews(FairNewsBounds)
  \/ OneShowcase(FairBounds)
  \/ OnePump(FairBounds)

SpecFair ==
  /\ Init /\ [][NextFair]_vars
  /\ WF_vars(XNewsTick) /\ WF_vars(ShowcaseTick) /\ WF_vars(PumpTick)

(***************************************************************************)
(* Scan after scan, with the submissions the service answered 403 noted    *)
(***************************************************************************)
\* listings per discovery response where rejections are noted
RejectBatch == 1

SpecRejects == Init /\ [][NextScan({1}, RejectBatch, TRUE)]_vars

(***************************************************************************)
(* Image Showcase alone, one cron tick after the other, with its publish   *)
(* calls noted                                                             *)
(***************************************************************************)
\* cron ticks of Image Showcase: one more than it has models
MaxWrapTicks == 4

WrapBounds ==
  [srcs |-> {"cron"}, forces |-> {NoForce}, idx |-> MaxWrapTicks,
   track |-> TRUE, note |-> TRUE]

SpecWrap == Init /\ [][OneShowcase(WrapBounds)]_vars

(***************************************************************************)
(* The process without COLOSSEUM_API_KEY: no agent, no cron task, the HTTP *)
(* server with its live triggers and previews                              *)
(***************************************************************************)
\* unforced triggers per pipeline without agent
MaxNoKeyTriggers == 2

NoKeyNewsBounds ==
  [srcs |-> {"cron", "live", "preview"}, forces |-> {NoForce},
   idx |-> MaxNoKeyTriggers, urls |-> 1, recs |-> 1, overlap |-> 0,
   track |-> FALSE, note |-> TRUE]

NoKeyBounds ==
  [srcs |-> {"cron", "live", "preview"}, forces |-> {NoForce},
   idx |-> MaxNoKeyTriggers, track |-> FALSE, note |-> TRUE]

InitNoKey ==
  /\ InitPipelines /\ InitProcess(FALSE, {}) /\ InitKeys(FALSE, TRUE)
  /\ InitTimers(FALSE, {}, TRUE)

NextNoKey ==
  \/ OneNews(NoKeyNewsBounds)
  \/ OneShowcase(NoKeyBounds)
  \/ OnePump(NoKeyBounds)
  \/ \E p \in AllCrons : AcceptPost(p)
  \/ \E p \in AllCrons : RejectPost(p)

SpecNoKey == InitNoKey /\ [][NextNoKey]_vars

(***************************************************************************)
(* The I/O methods of both agents called one after the other, whichever    *)
(* keys the environment holds                                              *)
(***************************************************************************)
InitCalls ==
  /\ InitPipelines
  /\ \E colosseumKey \in BOOLEAN, superteamKey \in BOOLEAN :
       /\ InitProcess(colosseumKey, IF colosseumKey THEN AllCrons ELSE {})
       /\ InitKeys(colosseumKey, superteamKey)
       /\ InitTimers(colosseumKey, IF colosseumKey THEN AllCrons ELSE {},
                     superteamKey)

SpecCalls == InitCalls /\ [][NextCalls]_vars

(***************************************************************************)
(* X News runs that overlap in time, started by cron ticks and by POST     *)
(* /trigger/x-news, with every publish call noted                          *)
(***************************************************************************)
\* unforced triggers explored when X News runs overlap
MaxRaceIndex == 3
\* URLs on the feed when X News runs overlap
RaceUrls == 2
\* identifiers recorded when X News runs overlap
RaceRecords == 3

RaceBounds ==
  [srcs |-> {"cron", "live"},
   forces |-> {NoForce},
   idx |-> MaxRaceIndex, urls |-> RaceUrls, recs |-> RaceRecords,
   overlap |-> RaceRecords, track |-> FALSE,
   note |-> TRUE]

SpecRace == Init /\ [][NextNews(RaceBounds)]_vars

(***************************************************************************)
(* Overlapping triggers of one pipeline: two runs of the same pipeline in  *)
(* flight together, started by cron ticks and live triggers, forced ones   *)
(* among them; each behaviour follows one of the three pipelines           *)
(***************************************************************************)
\* unforced triggers per pipeline when its runs overlap
MaxInterleaved == 3

InterleavedNewsBounds ==
  [srcs |-> {"cron", "live"}, forces |-> {NoForce, "payainetwork"},
   idx |-> MaxInterleaved, urls |-> 0, recs |-> 1, overlap |-> 1,
   track |-> TRUE,
   note |-> FALSE]

InterleavedShowcaseBounds ==
  [srcs |-> {"cron", "live"}, forces |-> {NoForce, "seedream"},
   idx |-> MaxInterleaved, track |-> TRUE,
   note |-> FALSE]

InterleavedPumpBounds ==
  [srcs |-> {"cron", "live"}, forces |-> {NoForce, "movers"},
   idx |-> MaxInterleaved, track |-> TRUE,
   note |-> FALSE]

\* the pipeline was never triggered
Untouched(runs, picked) ==
  picked = <<>> /\ \A s \in Runs : runs[s].pc = "idle"

NextInterleaved ==
  \/ /\ Untouched(showcaseRuns, modelPicked) /\ Untouched(pumpRuns, pumpPicked)
     /\ NextNews(InterleavedNewsBounds)
  \/ /\ Untouched(newsRuns, xNewsPicked) /\ Untouched(pumpRuns, pumpPicked)
     /\ NextShowcase(InterleavedShowcaseBounds)
  \/ /\ Untouched(newsRuns, xNewsPicked) /\ Untouched(showcaseRuns, modelPicked)
     /\ NextPump(InterleavedPumpBounds)

SpecInterleaved == Init /\ [][NextInterleaved]_vars

(***************************************************************************)
(* The timers alone: both agents constructed with their keys, nothing      *)
(* started yet; startScanner, stopScanner, startHeartbeat, stopHeartbeat,  *)
(* startCron and stopCron are called in any order                          *)
(***************************************************************************)
\* calls of fetchHeartbeat in flight next to the timers
MaxBeats == 1

InitNothingStarted ==
  /\ InitPipelines /\ InitProcess(FALSE, {}) /\ InitKeys(TRUE, TRUE)
  /\ InitTimers(FALSE, {}, FALSE)

SpecTimers == InitNothingStarted /\ [][NextTimers(MaxBeats)]_vars

(***************************************************************************)
(* The upload helper alone: calls of downloadAndUploadImage and            *)
(* downloadAndUploadVideo one after the other; every external call and     *)
(* every backoff timer comes to an end                                     *)
(***************************************************************************)
SpecUpload == Init /\ [][NextUpload]_vars /\ WF_vars(UploadSteps)

(***************************************************************************)
(* Previews next to scheduled runs: the three pipelines, one run of each   *)
(* at a time, started by cron ticks and by GET /test/... requests that     *)
(* may name the option                                                     *)
(***************************************************************************)
\* unforced triggers per pipeline, scheduled or preview
MaxDryRunIndex == 2

DryRunNewsBounds ==
  [srcs |-> {"cron", "preview"}, forces |-> {NoForce, "payainetwork"},
   idx |-> MaxDryRunIndex, urls |-> 0, recs |-> 1, overlap |-> 0,
   track |-> TRUE,
   note |-> FALSE]

DryRunShowcaseBounds ==
  [srcs |-> {"cron", "preview"}, forces |-> {NoForce, "grok-imagine"},
   idx |-> MaxDryRunIndex, track |-> TRUE,
   note |-> FALSE]

DryRunPumpBounds ==
  [srcs |-> {"cron", "preview"}, forces |-> {NoForce, "movers"},
   idx |-> MaxDryRunIndex, track |-> TRUE,
   note |-> FALSE]

NextDryRun ==
  \/ OneNews(DryRunNewsBounds)
  \/ OneShowcase(DryRunShowcaseBounds)
  \/ OnePump(DryRunPumpBounds)

SpecDryRun == Init /\ [][NextDryRun]_vars

(***************************************************************************)
(* The status of SuperteamEarnAgent: the I/O methods of both agents and    *)
(* the heartbeat report, called one after the other                        *)
(***************************************************************************)
NextStatus ==
  \/ NextCalls
  \/ ReportHeartbeat

SpecStatus == InitCalls /\ [][NextStatus]_vars

(***************************************************************************)
(* Properties                                                              *)
(***************************************************************************)
\* the k-th element of the rotation over options, started at index 0
Rotation(options, k) == options[((k - 1) % Len(options)) + 1]

\* C1: for X News (5 accounts) and Image Showcase (3 models), started at
\* index 0, the k-th unforced trigger takes options[(k-1) mod len]; the
\* stored index counts the unforced triggers (read first, then incremented by
\* exactly 1, once per unforced trigger), is never negative and never
\* decreases.
C1_RotationSelectThenAdvance ==
  /\ [](/\ xNewsIndex = Len(xNewsPicked)
        /\ modelIndex = Len(modelPicked)
        /\ xNewsIndex >= 0 /\ modelIndex >= 0
        /\ \A k \in 1..Len(xNewsPicked) :
             xNewsPicked[k] = Rotation(X_NEWS_ACCOUNTS, k)
        /\ \A k \in 1..Len(modelPicked) :
             modelPicked[k] = Rotation(IMAGE_MODELS, k))
  /\ [][/\ xNewsIndex' \in {xNewsIndex, xNewsIndex + 1}
        /\ modelIndex' \in {modelIndex, modelIndex + 1}]_vars

\* both rotations have wrapped around, forced triggers in between
C1_Witness ==
  /\ xNewsIndex = Len(X_NEWS_ACCOUNTS) + 1
  /\ xNewsPicked[xNewsIndex] = "solana"
  /\ modelIndex = Len(IMAGE_MODELS) + 1
  /\ modelPicked[modelIndex] = "nano-banana"
  /\ \E s \in Runs : newsRuns[s].pc = "post"

\* C2: in every reachable state the dedup window holds at most MAX_RECENT
\* entries; it starts empty and is never cleared: its length is the number
\* of identifiers recorded so far, capped at MAX_RECENT.
C2_WindowBounded ==
  /\ Len(recentNewsUrls) <= MAX_RECENT
  /\ Len(recentNewsUrls) = Min(Len(recorded), MAX_RECENT)

\* more than MAX_RECENT identifiers were recorded and the window is full
C2_Witness ==
  /\ Len(recorded) > MAX_RECENT + 1
  /\ Len(recentNewsUrls) = MAX_RECENT

\* C3: the dedup window is strict FIFO: after recording r1..rk (non-null)
\* the window is the last min(k, MAX_RECENT) of them in insertion order, so
\* the entry evicted is the oldest, a re-recorded identifier does not move
\* its earlier entry, and contains(id) holds exactly for those identifiers.
C3_WindowFifo ==
  /\ recentNewsUrls = LastN(recorded, MAX_RECENT)
  /\ \A u \in 1..(MAX_RECENT + ExtraRecords + 1) :
       Includes(recentNewsUrls, u)
         <=> \E i \in DOMAIN recorded :
               i > Len(recorded) - MAX_RECENT /\ recorded[i] = u

\* eviction has happened, the first identifier is gone, the last one is in,
\* and an identifier recorded twice sits in the window twice
C3_Witness ==
  /\ Len(recorded) > MAX_RECENT
  /\ ~Includes(recentNewsUrls, recorded[1])
  /\ Includes(recentNewsUrls, recorded[Len(recorded)])
  /\ \E i, j \in DOMAIN recentNewsUrls :
       i < j /\ recentNewsUrls[i] = recentNewsUrls[j]

\* C4: a news URL is recorded only for content actually published: a run
\* whose publish call failed, or that made none (preview), leaves the dedup
\* window as it was.
C4_RecordOnlyPublished ==
  [][\A s \in Runs :
       (newsRuns[s].pc = "post" /\ newsRuns'[s].pc = "idle" /\ lastPost' # "ok")
         => recentNewsUrls' = recentNewsUrls]_vars

\* C5: at most one run of a pipeline is in flight in every reachable state
\* (a trigger arriving while a run is in flight is a no-op).
C5_AtMostOneRunning ==
  Cardinality({s \in Runs : newsRuns[s].pc # "idle"}) <= 1

\* C6: with maxRetries >= 1, retry invokes fn at least once and at most
\* maxRetries times; it stops at the first invocation that resolves and
\* returns its value; when all maxRetries invocations reject it throws the
\* error of the last one.
C6_RetryBounded ==
  retry.pc # "idle" /\ retry.maxRetries >= 1 =>
    LET n == Len(retry.outcomes)
        invoked == IF retry.pc = "fn" THEN n + 1 ELSE n
    IN  /\ 1 <= invoked /\ invoked <= retry.maxRetries
        /\ \A i \in 1..(n - 1) : retry.outcomes[i] # 0
        /\ retry.pc = "done" =>
             \/ /\ retry.outcomes[n] = 0
                /\ retry.returned = n
                /\ retry.thrown = Undefined
             \/ /\ retry.outcomes[n] # 0
                /\ n = retry.maxRetries
                /\ retry.thrown = retry.outcomes[n]
                /\ retry.returned = Undefined
        /\ retry.pc # "done" => \A i \in 1..n : retry.outcomes[i] # 0

\* three attempts rejected and the third error thrown
C6_Witness ==
  /\ retry.pc = "done"
  /\ retry.maxRetries = 3
  /\ retry.outcomes = <<1, 2, 3>>
  /\ retry.thrown = 3

\* C7: the wait after failed attempt k (k < maxRetries) is exactly
\* delayMs * 2^(k-1); there is none after a resolved attempt nor after the
\* last rejected one; a call that first resolves on attempt k has waited
\* delayMs * (2^(k-1) - 1) in total.
SumSeq(s) ==
  LET sum[i \in 0..Len(s)] == IF i = 0 THEN 0 ELSE sum[i - 1] + s[i]
  IN  sum[Len(s)]

C7_RetryBackoff ==
  retry.pc # "idle" /\ retry.maxRetries >= 1 =>
    LET n == Len(retry.outcomes)
        failed == Cardinality({i \in 1..n : retry.outcomes[i] # 0})
    IN  /\ \A k \in 1..Len(retry.waits) :
             retry.waits[k] = retry.delayMs * 2^(k - 1)
        /\ Len(retry.waits) = Min(failed, retry.maxRetries - 1)
        /\ retry.pc = "done" /\ retry.returned # Undefined =>
             SumSeq(retry.waits) = retry.delayMs * (2^(n - 1) - 1)

\* maxRetries = 3, delayMs = 100, fail, fail, succeed: 3 invocations,
\* 300 waited in total, success
C7_Witness ==
  /\ retry.pc = "done"
  /\ retry.maxRetries = 3 /\ retry.delayMs = 100
  /\ retry.outcomes = <<1, 2, 0>>
  /\ retry.returned = 3
  /\ SumSeq(retry.waits) = 300

\* the categories with at least one keyword contained in the text
MatchingCategories(text) ==
  {c \in Range(CATEGORIES) :
     \E k \in DOMAIN CAPABILITY_KEYWORDS[c] :
       StrIncludes(text, CAPABILITY_KEYWORDS[c][k])}

\* C8: for every listing, scoreListing returns score equal to the number of
\* categories of CAPABILITY_KEYWORDS having at least one keyword contained
\* in the lower-cased text; matchedCategories holds exactly those
\* categories, each once; score = |matchedCategories| and 0 <= score <= 7.
C8_ScoreCountsCategories ==
  scored # NotScored =>
    LET matching == MatchingCategories(ListingText(scored.listing))
        matched == scored.matchedCategories
    IN  /\ Range(matched) = matching
        /\ \A i, j \in DOMAIN matched : i # j => matched[i] # matched[j]
        /\ scored.score = Cardinality(matching)
        /\ scored.score = Len(matched)
        /\ 0 <= scored.score /\ scored.score <= 7
        /\ Len(CATEGORIES) = 7

\* a listing whose text holds two keywords of one category ("image" and
\* "banner") and keywords of exactly two categories: score 2
C8_Witness ==
  /\ scored # NotScored
  /\ scored.score = 2
  /\ LET text == ListingText(scored.listing)
     IN  Cardinality({k \in DOMAIN CAPABILITY_KEYWORDS.image :
                        StrIncludes(text, CAPABILITY_KEYWORDS.image[k])}) >= 2

\* position i of the response is ranked before position j
RankedBefore(ids, i, j) ==
  \/ PoolScores[ids[i]].score > PoolScores[ids[j]].score
  \/ /\ PoolScores[ids[i]].score = PoolScores[ids[j]].score
     /\ i < j

\* the positions of the response that are eligible: score >= 2 and id not in
\* submittedListings when the candidates were selected
Eligible(scan) ==
  {i \in DOMAIN scan.listings :
     /\ PoolScores[scan.listings[i]].score >= 2
     /\ scan.listings[i] \notin scan.snapshot}

\* C9: in one scanAndSubmit cycle the listings for which a submission is
\* attempted are exactly the first min(3, |E|) items of E in rank order,
\* E being the discovered listings with score >= 2 and id not in
\* submittedListings at selection: the k-th attempt is the k-th ranked item
\* of E, there are never more than min(3, |E|) attempts, and a finished
\* scan has made all of them.
C9_AttemptsTopEligible ==
  \A s \in Runs :
    LET scan == scans[s]
        E == Eligible(scan)
        n == Min(3, Cardinality(E))
        att == scan.attempted
    IN  /\ Len(att) <= n
        /\ scan.pc = "done" => Len(att) = n
        /\ scan.pc \in {"submit", "comment", "delay"} => Len(att) = scan.i
        /\ \A k \in DOMAIN att :
             \E i \in E :
               /\ scan.listings[i] = att[k]
               /\ Cardinality({j \in E : RankedBefore(scan.listings, j, i)})
                    = k - 1

\* four listings discovered, one scoring below 2 and one already submitted:
\* exactly the two others were attempted
C9_Witness ==
  \E s \in Runs :
    /\ scans[s].pc = "done"
    /\ Len(scans[s].listings) = 4
    /\ \E i \in DOMAIN scans[s].listings :
         PoolScores[scans[s].listings[i]].score < 2
    /\ \E i \in DOMAIN scans[s].listings :
         /\ PoolScores[scans[s].listings[i]].score >= 2
         /\ scans[s].listings[i] \in scans[s].snapshot
    /\ Len(scans[s].attempted) = 2

\* the position of a listing id in the discovery response
PositionOf(ids, id) == CHOOSE i \in DOMAIN ids : ids[i] = id

\* C10: the candidate list built in scanAndSubmit is ordered by score
\* descending and is stable (candidates of equal score keep their relative
\* order from the discovery response), the listings taken are its first
\* three at most, and no candidate left out by the cap has a strictly
\* higher score than one that was kept.
C10_CandidatesSortedStable ==
  \A s \in Runs :
    LET scan == scans[s]
        cands == scan.candidates
        kept == scan.toSubmit
    IN  /\ \A i, j \in DOMAIN cands :
             i < j =>
               /\ cands[i].score >= cands[j].score
               /\ cands[i].score = cands[j].score =>
                    PositionOf(scan.listings, cands[i].id)
                      < PositionOf(scan.listings, cands[j].id)
        /\ \A i \in DOMAIN cands :
             cands[i].score = PoolScores[cands[i].id].score
        /\ {cands[i].id : i \in DOMAIN cands}
             = {scan.listings[i] : i \in Eligible(scan)}
        /\ Len(cands) = Cardinality(Eligible(scan))
        /\ kept = SubSeq(cands, 1, Min(3, Len(cands)))
        /\ \A i \in DOMAIN cands :
             i > Len(kept) =>
               \A k \in DOMAIN kept : cands[i].score <= kept[k].score

\* four candidates, the first two of equal score with the lower id second
\* in the response, the fourth left out by the cap with a lower score
C10_Witness ==
  \E s \in Runs :
    /\ Len(scans[s].candidates) = 4
    /\ Len(scans[s].toSubmit) = 3
    /\ scans[s].candidates[1].score = scans[s].candidates[2].score
    /\ scans[s].candidates[1].id > scans[s].candidates[2].id
    /\ scans[s].candidates[4].score < scans[s].candidates[3].score

\* the listing ids passed to the submission service in this step: by a scan
\* (its list of attempts grows) or by a direct call of submitWork
PassedToService ==
  {scans'[s].attempted[Len(scans'[s].attempted)] :
     s \in {t \in Runs : /\ scans'[t].pc = "submit"
                         /\ \/ scans[t].pc # "submit"
                            \/ scans'[t].i # scans[t].i}}
    \cup (IF direct.pc = "idle" /\ direct'.pc = "call" THEN {direct'.id}
          ELSE {})

\* C11: across scan cycles of one process, overlapping scans and direct
\* submitWork calls included, a listing id that has been submitted
\* successfully is never passed to the submission service again.
C11_NeverResubmitted ==
  [][\A id \in PassedToService : id \notin submittedListings]_vars

\* the submissions accepted in this step
AcceptedNow ==
  {scans[s].toSubmit[scans[s].i].id :
     s \in {t \in Runs : /\ scans[t].pc = "submit"
                         /\ scans'[t].submitted = scans[t].submitted + 1}}
    \cup (IF direct.pc = "call" /\ direct'.result = "accepted"
          THEN {direct.id} ELSE {})

\* C12: submittedListings grows monotonically; an id is inserted if and
\* only if a submission for it was accepted, a failed submission leaves the
\* set unchanged, and the set grows by exactly the number of accepted
\* submissions (by one with each).
C12_GrowsByAccepted ==
  [][/\ submittedListings \subseteq submittedListings'
     /\ submittedListings' = submittedListings \cup AcceptedNow
     /\ Cardinality(submittedListings')
          = Cardinality(submittedListings) + Cardinality(AcceptedNow)]_vars

\* a run of the pipeline ends in this step with an exception
ThrowsNow(runs, pc) ==
  /\ lastResult'.outcome = "threw"
  /\ \E s \in Runs : runs[s].pc = pc /\ runs'[s].pc = "idle"

\* C13: an exception thrown by a step of a cron-triggered run is caught in
\* the cron callback and never leaves it; the cron tasks stay scheduled, so
\* the pipeline fires again at its next tick, and the step changes nothing
\* of the other pipelines.
C13_CronErrorsCaught ==
  /\ [](~escaped /\ ~exited /\ crons = AllCrons)
  /\ [][/\ ThrowsNow(newsRuns, "fetch") =>
             UNCHANGED <<xNewsIndex, recentNewsUrls, showcaseVars, pumpVars>>
        /\ ThrowsNow(showcaseRuns, "image") =>
             UNCHANGED <<modelIndex, newsVars, pumpVars>>
        /\ ThrowsNow(pumpRuns, "fetch") =>
             UNCHANGED <<pumpfunType, newsVars, showcaseVars>>]_vars

\* the first X News run threw in fetchLatestNews; the second tick has
\* started the next run, while a showcase run goes on
C13_Witness ==
  /\ lastPost = "threw"
  /\ Len(xNewsPicked) = 2
  /\ \E s \in Runs : newsRuns[s].pc = "fetch"
  /\ \E s \in Runs : showcaseRuns[s].pc = "review"
  /\ ~escaped

\* C14: when the publish call of a live run fails (createForumPost gets an
\* error response), the run returns a failure result, not success = true.
C14_PublishFailureReported ==
  lastResult.post = "failed" => ~lastResult.success

\* the k-th value of the PumpFun alternation: 'trending' for odd k
Alternation(k) == IF k % 2 = 1 THEN "trending" ELSE "movers"

\* a run of the pipeline ends in this step without having published: it
\* threw, found no content, or its publish call failed
FailsNow(runs) ==
  /\ \E s \in Runs : runs[s].pc # "idle" /\ runs'[s].pc = "idle"
  /\ \/ lastResult'.outcome \in {"threw", "nocontent"}
     \/ lastResult'.post = "failed"

\* C15: once an unforced run has selected its option the cursor (or the
\* alternating flag) has advanced by exactly one step, whatever happens
\* afterwards: a run that fails or finds no content leaves the cursor where
\* the trigger put it, so the cursor counts the unforced triggers and the
\* next unforced trigger selects the next option, never the same one again.
C15_FailedRunStillRotates ==
  /\ [](/\ xNewsIndex = Len(xNewsPicked)
        /\ modelIndex = Len(modelPicked)
        /\ pumpfunType = Alternation(Len(pumpPicked) + 1)
        /\ \A k \in 1..(Len(xNewsPicked) - 1) :
             xNewsPicked[k + 1] # xNewsPicked[k]
        /\ \A k \in 1..(Len(modelPicked) - 1) :
             modelPicked[k + 1] # modelPicked[k]
        /\ \A k \in 1..(Len(pumpPicked) - 1) :
             pumpPicked[k + 1] # pumpPicked[k])
  /\ [][/\ FailsNow(newsRuns) => xNewsIndex' = xNewsIndex
        /\ FailsNow(showcaseRuns) => modelIndex' = modelIndex
        /\ FailsNow(pumpRuns) => pumpfunType' = pumpfunType
        /\ xNewsIndex' # xNewsIndex =>
             /\ xNewsIndex' = xNewsIndex + 1
             /\ Len(xNewsPicked') = Len(xNewsPicked) + 1
        /\ modelIndex' # modelIndex =>
             /\ modelIndex' = modelIndex + 1
             /\ Len(modelPicked') = Len(modelPicked) + 1
        /\ pumpfunType' # pumpfunType =>
             Len(pumpPicked') = Len(pumpPicked) + 1]_vars

\* the only pipeline triggered so far is Image Showcase; a run with
\* nano-banana threw in generateImage and the next tick took seedream
C15_Witness ==
  /\ xNewsPicked = <<>> /\ pumpPicked = <<>>
  /\ lastResult.outcome = "threw"
  /\ modelPicked = <<"nano-banana", "seedream">>
  /\ modelIndex = 2
  /\ showcaseRuns[1].pc = "prompt" /\ showcaseRuns[2].pc = "idle"

\* the run of the pipeline that starts in this step, if any
Started(runs) == {s \in Runs : runs[s].pc = "idle" /\ runs'[s].pc # "idle"}

\* C16: a forced trigger uses exactly the supplied option and leaves the
\* rotation index (or the alternating flag) unchanged, so the sequence of
\* options selected by unforced triggers is the rotation from the start,
\* whether or not forced triggers are interleaved.
C16_ForcedLeavesRotation ==
  /\ [][/\ \A s \in Started(newsRuns) :
             IF xNewsPicked' = xNewsPicked
               THEN /\ newsRuns'[s].option = "payainetwork"
                    /\ xNewsIndex' = xNewsIndex
               ELSE newsRuns'[s].option
                      = Rotation(X_NEWS_ACCOUNTS, Len(xNewsPicked'))
        /\ \A s \in Started(showcaseRuns) :
             IF modelPicked' = modelPicked
               THEN /\ showcaseRuns'[s].option = "grok-imagine"
                    /\ modelIndex' = modelIndex
               ELSE showcaseRuns'[s].option
                      = Rotation(IMAGE_MODELS, Len(modelPicked'))
        /\ \A s \in Started(pumpRuns) :
             IF pumpPicked' = pumpPicked
               THEN /\ pumpRuns'[s].option = "movers"
                    /\ pumpfunType' = pumpfunType
               ELSE pumpRuns'[s].option = Alternation(Len(pumpPicked'))]_vars
  /\ [](/\ \A k \in 1..Len(xNewsPicked) :
             xNewsPicked[k] = Rotation(X_NEWS_ACCOUNTS, k)
        /\ \A k \in 1..Len(modelPicked) :
             modelPicked[k] = Rotation(IMAGE_MODELS, k)
        /\ \A k \in 1..Len(pumpPicked) : pumpPicked[k] = Alternation(k))

\* after one unforced run of each pipeline, a forced run of each is in flight
\* with the supplied option and the cursors are where the unforced runs left
\* them
C16_Witness ==
  /\ xNewsPicked = <<"solana">> /\ xNewsIndex = 1
  /\ newsRuns[1].pc # "idle" /\ newsRuns[1].option = "payainetwork"
  /\ modelPicked = <<"nano-banana">> /\ modelIndex = 1
  /\ showcaseRuns[1].pc # "idle" /\ showcaseRuns[1].option = "grok-imagine"
  /\ pumpPicked = <<"trending">> /\ pumpfunType = "movers"
  /\ pumpRuns[1].pc # "idle" /\ pumpRuns[1].option = "movers"

\* C17: the PumpFun flag is always 'trending' or 'movers', starts at
\* 'trending', and is toggled exactly once per unforced trigger, after the
\* type was read and by no other step: the k-th unforced trigger uses
\* 'trending' for odd k and 'movers' for even k.
C17_FlagAlternates ==
  /\ [](/\ pumpfunType \in {"trending", "movers"}
        /\ pumpPicked = <<>> => pumpfunType = "trending"
        /\ \A k \in 1..Len(pumpPicked) : pumpPicked[k] = Alternation(k))
  /\ [][IF Len(pumpPicked') = Len(pumpPicked) + 1
          THEN /\ pumpPicked'[Len(pumpPicked')] = pumpfunType
               /\ pumpfunType' # pumpfunType
          ELSE /\ pumpfunType' = pumpfunType
               /\ pumpPicked' = pumpPicked]_vars

\* four unforced triggers have run, the flag is back at 'trending', and a
\* run for 'movers' is at its publish step
C17_Witness ==
  /\ pumpPicked = <<"trending", "movers", "trending", "movers">>
  /\ pumpfunType = "trending"
  /\ pumpRuns[1].pc = "post" /\ pumpRuns[1].option = "movers"
  /\ pumpRuns[2].pc = "idle"
  /\ lastResult.outcome = "returned"

\* the run of the pipeline that returns from its publish step in this step
Publishing(runs) == {s \in Runs : runs[s].pc = "post" /\ runs'[s].pc = "idle"}

\* C19: a preview never calls createForumPost, on any path (the publish
\* step of a preview is skipped, that of a live run is not), and otherwise
\* takes the same steps as a live run: the same selection, the same advance
\* of the cursor, and the same recording of the news URL.
C19_PreviewNeverPublishes ==
  [][/\ \A s \in Publishing(newsRuns) :
          /\ (lastResult'.post = "skipped") <=> ~newsRuns[s].live
          /\ recentNewsUrls' = TrackNewsUrl(recentNewsUrls, newsRuns[s].url)
     /\ \A s \in Publishing(showcaseRuns) :
          (lastResult'.post = "skipped") <=> ~showcaseRuns[s].live
     /\ \A s \in Publishing(pumpRuns) :
          (lastResult'.post = "skipped") <=> ~pumpRuns[s].live
     /\ \A s \in Started(newsRuns) :
          /\ newsRuns'[s].option = Rotation(X_NEWS_ACCOUNTS, xNewsIndex + 1)
          /\ xNewsIndex' = xNewsIndex + 1
     /\ \A s \in Started(showcaseRuns) :
          /\ showcaseRuns'[s].option = Rotation(IMAGE_MODELS, modelIndex + 1)
          /\ modelIndex' = modelIndex + 1
     /\ \A s \in Started(pumpRuns) :
          /\ pumpRuns'[s].option = pumpfunType
          /\ pumpfunType' # pumpfunType]_vars

\* a preview of X News has run to its end: nothing was published, its URL
\* is in the window and the cursor has advanced
C19_Witness ==
  /\ lastResult = Returned("skipped")
  /\ recorded = <<1>> /\ recentNewsUrls = <<1>> /\ xNewsIndex = 1
  /\ newsRuns[1].pc = "idle"
  /\ showcaseRuns[1].pc = "idle" /\ modelPicked = <<>>
  /\ pumpRuns[1].pc = "idle" /\ pumpPicked = <<>>

\* no identifier occurs twice in the window
NoDuplicates(window) ==
  \A i, j \in DOMAIN window : window[i] = window[j] => i = j

\* C18: when X News runs do not overlap, the item chosen for publication
\* never has a URL contained in the dedup window at the time of the choice
\* (the whole window is checked), so a non-null URL is not published a second
\* time while it is still in the window.
C18_ChosenUrlIsNovel ==
  /\ [][\A s \in Runs :
          /\ (/\ newsRuns[s].pc = "fetch" /\ newsRuns'[s].pc = "title"
              /\ newsRuns'[s].url # NoUrl)
               => ~Includes(recentNewsUrls, newsRuns'[s].url)
          /\ (/\ newsRuns[s].pc = "post" /\ newsRuns'[s].pc = "idle"
              /\ newsRuns[s].url # NoUrl)
               => ~Includes(recentNewsUrls, newsRuns[s].url)]_vars
  /\ []NoDuplicates(recentNewsUrls)

\* two URLs are in the window and a third run has chosen an item whose URL
\* is neither of them
C18_Witness ==
  /\ recentNewsUrls = <<1, 2>>
  /\ newsRuns[1].pc = "title" /\ newsRuns[1].url = 3
  /\ xNewsIndex = 4

\* C20: after shutdown begins (the signal handler has called stopHeartbeat
\* and stopCron) every periodic timer of the process is stopped (the three
\* cron tasks, the heartbeat interval), and no new pipeline run and no new
\* heartbeat fetch is started; what is in flight may still finish.
C20_NothingStartsAfterShutdown ==
  /\ [](shuttingDown => crons = {} /\ ~heartbeatInterval)
  /\ [][shuttingDown =>
          /\ Started(newsRuns) = {}
          /\ Started(showcaseRuns) = {}
          /\ Started(pumpRuns) = {}
          /\ heartbeats' <= heartbeats]_vars

C22_NoPipelineBlocksAnother ==
  /\ [](/\ (newsRuns[1].pc = "idle" /\ xNewsIndex < MaxFairTicks)
             => ENABLED XNewsTick
        /\ (showcaseRuns[1].pc = "idle" /\ modelIndex < MaxFairTicks)
             => ENABLED ShowcaseTick
        /\ (pumpRuns[1].pc = "idle" /\ Len(pumpPicked) < MaxFairTicks)
             => ENABLED PumpTick)
  /\ \A k \in 0..(MaxFairTicks - 1) :
       /\ (newsRuns[1].pc = "idle" /\ xNewsIndex = k) ~> (xNewsIndex = k + 1)
       /\ (showcaseRuns[1].pc = "idle" /\ modelIndex = k)
            ~> (modelIndex = k + 1)
       /\ (pumpRuns[1].pc = "idle" /\ Len(pumpPicked) = k)
            ~> (Len(pumpPicked) = k + 1)

\* the second run of X News has started while the first runs of the other
\* two pipelines are waiting on their external calls
C22_Witness ==
  /\ newsRuns[1].pc = "fetch" /\ xNewsIndex = 2
  /\ showcaseRuns[1].pc = "image" /\ modelIndex = 1
  /\ pumpRuns[1].pc = "fetch" /\ Len(pumpPicked) = 1

\* C23: a listing whose submission the service rejected (403) is told apart
\* from a transient failure and skipped for good: no later scan of the
\* process passes it to the submission service again.
C23_RejectedNeverResubmitted ==
  [][\A id \in PassedToService : ~Includes(noted, BlockedEntry(id))]_vars

\* C24: a scan in which no discovered listing is eligible (none with score
\* >= 2 outside submittedListings, or nothing discovered) ends as a success
\* with nothing done: no submission call, no comment call, submitted = 0,
\* no exception, submittedListings unchanged.
C24_NothingEligibleNothingDone ==
  /\ [][\A s \in Runs :
          (/\ scans[s].pc = "discover" /\ scans'[s].pc # "discover"
           /\ Eligible(scans'[s]) = {})
            => /\ scans'[s].pc = "done"
               /\ scans'[s].submitted = 0
               /\ scans'[s].attempted = <<>>
               /\ UNCHANGED <<submittedListings, escaped>>]_vars
  /\ [](\A s \in Runs :
          scans[s].pc \in {"submit", "comment", "delay"}
            => Eligible(scans[s]) # {})

\* a scan has ended without any call: of the two listings discovered, one
\* scores below 2 and the other was submitted by an earlier scan
C24_Witness ==
  /\ scans[1].pc = "done"
  /\ Len(scans[1].listings) = 2
  /\ Eligible(scans[1]) = {}
  /\ scans[1].attempted = <<>> /\ scans[1].submitted = 0
  /\ \E i \in DOMAIN scans[1].listings :
       PoolScores[scans[1].listings[i]].score < 2
  /\ \E i \in DOMAIN scans[1].listings :
       scans[1].listings[i] \in scans[1].snapshot
  /\ submittedListings = scans[1].snapshot

\* C25: within one scan a courtesy delay separates any two consecutive
\* submission calls: a submission call other than the first of its scan
\* starts only when the delay that follows the previous attempt (and its
\* comment, if any) has elapsed, and every attempt, accepted or not, is
\* followed by that delay.
C25_DelayBetweenSubmissions ==
  [][\A s \in Runs :
       /\ (scans'[s].pc = "submit" /\ scans'[s].i > 1
           /\ scans'[s].i # scans[s].i)
            => /\ scans[s].pc = "delay"
               /\ scans'[s].i = scans[s].i + 1
       /\ (scans[s].pc = "submit" /\ scans'[s] # scans[s])
            => scans'[s].pc \in {"comment", "delay"}
       /\ (scans[s].pc = "comment" /\ scans'[s] # scans[s])
            => scans'[s].pc = "delay"]_vars

\* the second submission of a scan has started, after the delay that
\* followed a first submission which was not accepted
C25_Witness ==
  /\ scans[1].pc = "submit" /\ scans[1].i = 2
  /\ Len(scans[1].attempted) = 2
  /\ scans[1].submitted = 0

\* the items of the publish calls noted, in order
NotedItems == [k \in DOMAIN noted |-> noted[k].item]

\* every run so far has ended and none has failed: each made its publish
\* call and the call succeeded
NoFailureSoFar ==
  /\ showcaseRuns[1].pc = "idle"
  /\ Len(noted) = modelIndex
  /\ \A k \in DOMAIN noted : noted[k].post = "ok"

\* C26: Image Showcase (3 options) triggered 4 times unforced with no
\* external failure makes exactly 4 publish calls, one per run, for options
\* 1, 2, 3, 1 in that order, and the rotation index (the stored counter
\* modulo the number of options) is then back at 1.
C26_FourRunsWrapAround ==
  /\ [][IF Publishing(showcaseRuns) # {}
          THEN \E post \in {"ok", "failed"} :
                 noted' = Append(noted,
                                 PostEntry("showcase",
                                           Rotation(IMAGE_MODELS, modelIndex),
                                           post))
          ELSE noted' = noted]_vars
  /\ [](NoFailureSoFar =>
          /\ \A k \in DOMAIN noted :
               NotedItems[k] = Rotation(IMAGE_MODELS, k)
          /\ modelIndex = 4 =>
               /\ NotedItems
                    = <<IMAGE_MODELS[1], IMAGE_MODELS[2], IMAGE_MODELS[3],
                        IMAGE_MODELS[1]>>
               /\ modelIndex % Len(IMAGE_MODELS) = 1)

\* four ticks, four successful publish calls, the fourth for the first
\* model again
C26_Witness ==
  /\ NoFailureSoFar
  /\ modelIndex = 4
  /\ Len(noted) = 4
  /\ noted[4] = PostEntry("showcase", "nano-banana", "ok")
  /\ noted[3] = PostEntry("showcase", "grok-imagine", "ok")

\* the listings of the pool with the given ids, in that order
PoolListings(ids) == [i \in DOMAIN ids |-> Pool[ids[i]]]

C28_NoKeyNoPublish ==
  /\ [](/\ crons = {}
        /\ noted = <<>>
        /\ lastResult.post \notin {"ok", "failed"}
        /\ \A i \in 1..3 : \A s \in Runs :
             AllRuns[i][s].pc # "idle" => ~AllRuns[i][s].live)
  /\ [][pendingPosts' # pendingPosts /\ pendingPosts' \subseteq pendingPosts
          => UNCHANGED <<newsVars, showcaseVars, pumpVars>>]_vars
  /\ [](/\ (newsRuns[1].pc = "idle" /\ xNewsIndex < MaxNoKeyTriggers)
             => ENABLED XNewsTrigger(1, "preview", NoForce, NoKeyNewsBounds)
        /\ (showcaseRuns[1].pc = "idle" /\ modelIndex < MaxNoKeyTriggers)
             => ENABLED ShowcaseTrigger(1, "preview", NoForce, NoKeyBounds)
        /\ (pumpRuns[1].pc = "idle" /\ Len(pumpPicked) < MaxNoKeyTriggers)
             => ENABLED PumpTrigger(1, "preview", NoForce, NoKeyBounds))

\* a POST /trigger/x-news is waiting for its answer while a preview of
\* X News is at its publish step and a preview of Image Showcase has ended
C28_Witness ==
  /\ ~agentReady
  /\ pendingPosts = {"xnews"}
  /\ newsRuns[1].pc = "post" /\ ~newsRuns[1].live
  /\ modelIndex = 1 /\ showcaseRuns[1].pc = "idle"
  /\ lastResult = Returned("skipped")


\* a call of an I/O method other than register made while this.apiKey of its
\* agent was unset
Keyless == call.method \in IOMethods /\ ~call.key

\* C29 as stated: every I/O method other than register, called while apiKey
\* is unset, makes no network request, returns null without throwing, and
\* leaves submittedListings and status unchanged.
C29_EveryMethodSilentNull ==
  /\ [](Keyless =>
          /\ call.public + call.api = 0
          /\ call.pc = "idle" /\ call.result = "null" /\ ~call.threw)
  /\ [][(call'.method \in IOMethods /\ ~call'.key)
          => UNCHANGED <<submittedListings, status>>]_vars

\* C29, amended: a missing key fails the call, not the process. Called while
\* apiKey is unset, no I/O method other than register throws, sends a request
\* with credentials or changes submittedListings or status; each of them
\* returns null at once without any request, except respondToPoll, which
\* returns nothing, and fetchHeartbeat, which still fetches the public
\* heartbeat file and returns null if that fails and the file with a null
\* status otherwise.
C29_MissingKeyFailsTheCallOnly ==
  /\ [](Keyless =>
          /\ ~call.threw /\ call.api = 0
          /\ call.method \in ColosseumMethods \cup SuperteamMethods =>
                call.pc = "idle" /\ call.public = 0 /\ call.result = "null"
          /\ call.method = "respondToPoll" =>
                call.pc = "idle" /\ call.public = 0
                /\ call.result = "undefined"
          /\ call.method = "fetchHeartbeat" =>
                /\ call.public = 1
                /\ call.pc \in {"heartbeat", "idle"}
                /\ call.pc = "idle" => call.result \in {"null", "object"})
  /\ [][(call'.method \in IOMethods /\ ~call'.key)
          => UNCHANGED <<submittedListings, status>>]_vars

\* submitWork was called for listing 2 without a key after the other agent's
\* key arrived by register: it returned null and recorded nothing
C29_Witness ==
  /\ call.method = "submitWork" /\ ~call.key /\ call.id = 2
  /\ call.pc = "idle" /\ call.result = "null"
  /\ apiKey = [colosseum |-> TRUE, superteam |-> FALSE]
  /\ submittedListings = {} /\ status = "ok"


\* C30: even when runs of the X News pipeline overlap, the same non-null news
\* URL is never published twice while it is within the dedup window.
C30_NoUrlPublishedTwice ==
  \A i \in DOMAIN noted : \A j \in DOMAIN noted :
    (/\ i < j
     /\ noted[i] = noted[j]
     /\ noted[i].pipeline = "xnews" /\ noted[i].post = "ok"
     /\ noted[i].item # NoUrl)
      => ~Includes(recentNewsUrls, noted[i].item)


\* a run of the same pipeline is in flight
Overlapping(runs) == \E s \in Runs : runs[s].pc # "idle"

\* C31: selection and advance are one step: whatever the interleaving of
\* overlapping unforced triggers of one pipeline, the trigger that makes the
\* k-th unforced pick reads index k-1 and leaves index k (for PumpFun: reads
\* the flag and leaves the other value), so n unforced triggers consume n
\* consecutive index values, none twice and none skipped.
C31_OverlappingTriggersTakeConsecutive ==
  /\ [](xNewsIndex = Len(xNewsPicked) /\ modelIndex = Len(modelPicked))
  /\ [][/\ xNewsPicked' # xNewsPicked =>
             /\ xNewsIndex' = xNewsIndex + 1
             /\ xNewsPicked' =
                  Append(xNewsPicked,
                         X_NEWS_ACCOUNTS[(xNewsIndex % Len(X_NEWS_ACCOUNTS)) + 1])
        /\ modelPicked' # modelPicked =>
             /\ modelIndex' = modelIndex + 1
             /\ modelPicked' =
                  Append(modelPicked,
                         IMAGE_MODELS[(modelIndex % Len(IMAGE_MODELS)) + 1])
        /\ pumpPicked' # pumpPicked =>
             /\ pumpfunType' # pumpfunType
             /\ pumpPicked' = Append(pumpPicked, pumpfunType)
        /\ xNewsPicked' = xNewsPicked => xNewsIndex' = xNewsIndex
        /\ modelPicked' = modelPicked => modelIndex' = modelIndex
        /\ pumpPicked' = pumpPicked => pumpfunType' = pumpfunType]_vars

\* two unforced X News runs in flight together, on the first two accounts,
\* both still fetching
C31_Witness ==
  /\ newsRuns[1].pc = "fetch" /\ newsRuns[1].option = "solana"
  /\ newsRuns[2].pc = "fetch" /\ newsRuns[2].option = "dexteraisol"
  /\ xNewsIndex = 2


\* a run of scanAndSubmit begins in this step
ScanBegins ==
  \E s \in Runs : scans'[s].pc = "discover" /\ scans[s].pc # "discover"

\* C32: after stopScanner has returned (and until startScanner is called
\* again) no run of scanAndSubmit is started, however soon after startScanner
\* the stop came.
C32_NoScanAfterStop ==
  [][ScanBegins => timers.scanInterval # 0]_vars

\* the timers of one kind that can still fire
LiveOf(kind) == {x \in timers.live : x.kind = kind}

\* C33: at most one heartbeat interval and at most one scanner interval is
\* active, whatever start and stop calls were made, and right after a stop
\* call none of its kind is.
C33_AtMostOneInterval ==
  /\ Cardinality(LiveOf("beat")) <= 1
  /\ Cardinality(LiveOf("scan")) <= 1
  /\ timers.last = "stopHeartbeat" => LiveOf("beat") = {}
  /\ timers.last = "stopScanner" => LiveOf("scan") = {}

\* C34: whatever startCron and stopCron calls were made, each pipeline has at
\* most one cron task scheduled, the one its reference points to; after
\* stopCron the three references are null and no task is scheduled; stopCron
\* called with nothing scheduled changes nothing.
C34_AtMostOneCronTask ==
  /\ [](\A p \in AllCrons :
          /\ Cardinality(LiveOf(p)) <= 1
          /\ LiveOf(p) = IF timers.cronRef[p] # 0
                           THEN {Timer(p, timers.cronRef[p])} ELSE {}
          /\ p \in crons <=> timers.cronRef[p] # 0)
  /\ [](timers.last = "stopCron" =>
          /\ crons = {}
          /\ \A p \in AllCrons : timers.cronRef[p] = 0 /\ LiveOf(p) = {})
  /\ [][(timers'.last = "stopCron" /\ crons = {}) =>
          /\ crons' = crons
          /\ timers'.live = timers.live
          /\ timers'.cronRef = timers.cronRef]_vars

\* startCron was called twice in a row: the tasks of the second call are
\* scheduled, those of the first are not
C34_Witness ==
  /\ timers.started.cron = 2 /\ timers.last = "startCron"
  /\ \A p \in AllCrons : LiveOf(p) = {Timer(p, 2)}
  /\ crons = AllCrons


\* C35: the retries are nested. One call makes at most 3 downloads and at
\* most 9 storage uploads, at most 3 uploads per download; an upload that
\* fails for the third time in a row makes the outer retry sleep and download
\* again while it has an attempt left; and every call comes to an end.
C35_NestedRetriesBounded ==
  /\ [](/\ upload.downloads <= 3 /\ upload.uploads <= 9
        /\ upload.uploads <= 3 * upload.downloads
        /\ upload.outer.attempt = upload.downloads
             + (IF upload.outer.pc = "done" /\ ~upload.result.success
                     /\ upload.pc = "done" THEN 1 ELSE 0))
  /\ [][(upload.pc = "upload" /\ upload.inner.attempt = 3
          /\ upload'.pc # "done" /\ upload'.uploads = upload.uploads)
          => upload'.pc = "outersleep"]_vars
  /\ [][upload.pc = "outersleep" /\ upload' # upload
          => upload'.pc = "download"
             /\ upload'.downloads = upload.downloads + 1]_vars
  /\ (upload.pc \notin {"idle", "done"}) ~> (upload.pc = "done")

\* three downloads, each followed by three failed uploads: the call gave up
C35_Witness ==
  /\ upload.pc = "done" /\ ~upload.result.success
  /\ upload.downloads = 3 /\ upload.uploads = 9

\* C36: downloadAndUploadImage and downloadAndUploadVideo never throw. A call
\* that gave up returns success = false and the message of the last error;
\* one that got through returns success = true and a url; generateImage
\* throws on the former and returns the uploaded url on the latter.
C36_UploadNeverThrows ==
  /\ ~upload.threw
  /\ upload.pc = "done" =>
       /\ upload.result.success =>
            /\ upload.result.url = "cdn"
            /\ upload.inner.outcomes[Len(upload.inner.outcomes)] = 0
       /\ ~upload.result.success =>
            /\ upload.result.url = "none"
            /\ upload.result.message = upload.downloads + upload.uploads
            /\ upload.outer.attempt > UploadRetries
       /\ upload.caller = "generateImage" =>
            upload.image = IF upload.result.success THEN "cdn" ELSE "threw"

\* generateImage threw: the download worked at the third attempt only and
\* the upload that followed failed three times
C36_Witness ==
  /\ upload.pc = "done" /\ upload.caller = "generateImage"
  /\ upload.image = "threw"
  /\ upload.downloads = 3 /\ upload.uploads = 3
  /\ upload.result.message = 6

\* C37: an X News run whose fetch leaves no novel item (nothing was fetched,
\* or every fetched item is in the dedup window) ends at the fetch: its
\* result has success = false, no title, banner or publish call is made and
\* the dedup window is as it was.  A run goes on to the title only with an
\* item whose URL is not in the window.
C37_NoNovelItemEndsRun ==
  [][\A s \in Runs :
       (newsRuns[s].pc = "fetch" /\ newsRuns'[s] # newsRuns[s]) =>
         \/ /\ newsRuns'[s].pc = "title"
            /\ ~Includes(recentNewsUrls, newsRuns'[s].url)
         \/ /\ newsRuns'[s] = NoRun
            /\ lastResult' = Thrown
            /\ lastPost' = "threw"
         \/ /\ newsRuns'[s] = NoRun
            /\ lastPost' = "nonews"
            /\ lastResult'.outcome = "nocontent"
            /\ ~lastResult'.success
            /\ lastResult'.post = "none"
            /\ recentNewsUrls' = recentNewsUrls
            /\ recorded' = recorded
            /\ pendingPosts' = pendingPosts]_vars

\* two URLs are in the window and the last run ended at the fetch without
\* a novel item, leaving the two records as they were
C37_Witness ==
  /\ recentNewsUrls = <<1, 2>> /\ Len(recorded) = 2
  /\ lastPost = "nonews" /\ ~lastResult.success
  /\ \A s \in Runs : newsRuns[s].pc = "idle"

\* the preview of the pipeline that starts in this step, if any
PreviewStarted(runs) == {s \in Started(runs) : ~runs'[s].live}

\* C38: a preview without an explicit override changes the shared rotation
\* state exactly as an unforced scheduled run does: it takes the option
\* under the cursor and increments xNewsIndex / modelIndex, or takes the
\* flag and toggles pumpfunType.  So the cursor counts the unforced
\* previews along with the unforced scheduled runs, and the option of the
\* next scheduled run is the one that count leads to.  Only a preview that
\* names its option leaves the cursor and the flag as they were.
C38_UnforcedPreviewRotates ==
  /\ [][/\ \A s \in Started(newsRuns) :
             IF xNewsPicked' # xNewsPicked
               THEN /\ xNewsIndex' = xNewsIndex + 1
                    /\ newsRuns'[s].option
                         = Rotation(X_NEWS_ACCOUNTS, xNewsIndex + 1)
               ELSE /\ ~newsRuns'[s].live
                    /\ newsRuns'[s].option = "payainetwork"
        /\ \A s \in PreviewStarted(newsRuns) :
             (xNewsIndex' = xNewsIndex) <=> (xNewsPicked' = xNewsPicked)
        /\ \A s \in Started(showcaseRuns) :
             IF modelPicked' # modelPicked
               THEN /\ modelIndex' = modelIndex + 1
                    /\ showcaseRuns'[s].option
                         = Rotation(IMAGE_MODELS, modelIndex + 1)
               ELSE /\ ~showcaseRuns'[s].live
                    /\ showcaseRuns'[s].option = "grok-imagine"
        /\ \A s \in PreviewStarted(showcaseRuns) :
             (modelIndex' = modelIndex) <=> (modelPicked' = modelPicked)
        /\ \A s \in Started(pumpRuns) :
             IF pumpPicked' # pumpPicked
               THEN /\ pumpfunType' # pumpfunType
                    /\ pumpRuns'[s].option = pumpfunType
               ELSE /\ ~pumpRuns'[s].live
                    /\ pumpRuns'[s].option = "movers"
        /\ \A s \in PreviewStarted(pumpRuns) :
             (pumpfunType' = pumpfunType) <=> (pumpPicked' = pumpPicked)]_vars
  /\ [](/\ xNewsIndex = Len(xNewsPicked)
        /\ modelIndex = Len(modelPicked)
        /\ pumpfunType = Alternation(Len(pumpPicked) + 1))

\* the first trigger of X News was an unforced preview, which is in flight
\* with the first account and has moved the cursor; an unforced preview of
\* PumpFun is in flight with 'trending' and has toggled the flag; a preview
\* of the showcase that names its model is in flight and the cursor of the
\* showcase is where it was
C38_Witness ==
  /\ newsRuns[1].pc # "idle" /\ ~newsRuns[1].live
  /\ newsRuns[1].option = "solana" /\ xNewsIndex = 1
  /\ pumpRuns[1].pc # "idle" /\ ~pumpRuns[1].live
  /\ pumpRuns[1].option = "trending" /\ pumpfunType = "movers"
  /\ pumpPicked = <<"trending">>
  /\ showcaseRuns[1].pc # "idle" /\ ~showcaseRuns[1].live
  /\ showcaseRuns[1].option = "grok-imagine" /\ modelIndex = 0

\* C39: the status of SuperteamEarnAgent is always 'ok', 'blocked' or
\* 'degraded' and starts at 'ok'.  It changes only in the failed response
\* to a request: to 'blocked' in one to discoverListings, to 'degraded' in
\* one to submitWork, which then records no submission.  No step sets it
\* back to 'ok', and a heartbeat reports the status as it is, so every
\* heartbeat after the status has left 'ok' reports 'blocked' or 'degraded'.
C39_StatusNeverRecovers ==
  /\ status = "ok"
  /\ [](status \in {"ok", "blocked", "degraded"})
  /\ [][status' # status =>
          /\ call.pc = "request" /\ call.agent = "superteam"
          /\ call'.pc = "idle" /\ call'.result = "null"
          /\ status' = "blocked" => call.method = "discoverListings"
          /\ status' = "degraded" =>
               /\ call.method = "submitWork"
               /\ submittedListings' = submittedListings
          /\ status' # "ok"]_vars
  /\ [][status # "ok" => status' # "ok"]_vars
  /\ [][(call' # call /\ call'.method = "reportHeartbeat") =>
          /\ call'.result = status
          /\ status # "ok" => call'.result \in {"blocked", "degraded"}
          /\ status' = status]_vars

\* a submission was recorded, a later one was rate limited, and the
\* heartbeat reported after that says 'degraded'
C39_Witness ==
  /\ status = "degraded" /\ submittedListings = {1}
  /\ call.method = "reportHeartbeat" /\ call.result = "degraded"

====
